---- MODULE Spec2Model ----
(***************************************************************************)
(* Campaign Manager 2026: the simulation engine (models/, data/, engine/,  *)
(* ai/) and the run loop of main.py, as a state machine.                    *)
(*                                                                         *)
(* Numbers.  Support percentages are floats that the code rounds to one    *)
(* decimal after every update; they are kept here as integer TENTHS of a   *)
(* point (48.5 is 485).  An effect (base_support_change * momentum_modifier *)
(* [* 0.5]) is kept exactly, in UNITS of 1/400 of a tenth, so that         *)
(* 3.0 * (1 + m/200) is 30 * (200 + m) * 2 units.  round(x, 1) rounds the  *)
(* exact value to the nearest tenth; on an exact tie (x.x5) the binary      *)
(* float may lie on either side, so the direction is an input (up) of the   *)
(* operation that rounds.                                                   *)
(***************************************************************************)
EXTENDS Integers, Sequences, FiniteSets, TLC

VARIABLES
    gs,          \* GameEngine._game_state (NoGame before new_game)
    call,        \* the engine entry point called last, and how it returned
    result,      \* the ActionResult returned by the last execute call
    election,    \* the ElectionResult computed by the last end_game
    fired,       \* the observer hooks fired by the last call, in order
    calls,       \* number of engine calls made so far (bounded exploration)
    pc,          \* position of CampaignManager.run / _run_turn
    gsB,         \* the game state of a second engine created with the same seed
    electionB    \* the ElectionResult of the second engine

vars == <<gs, call, result, election, fired, calls, pc, gsB, electionB>>

-----------------------------------------------------------------------------
(* Bounds of the exploration.                                              *)

\* engine calls explored per behaviour of the open engine interface
MaxCalls == 3
\* turns at the end of a game of the run loop whose inputs are all explored
\* (in the turns before them no event occurs and both sides raise funds)
FreeTurns == 1

\* the fundraisers one player holds in a row
MaxFundraisers == 21

\* engine calls explored per behaviour when the event log is followed
MaxLogCalls == 5

-----------------------------------------------------------------------------
(* models/actions.py                                                       *)

ActionTypes == <<"FUNDRAISER", "RALLY", "AD_CAMPAIGN", "GRASSROOTS",
                 "DEBATE_PREP", "OPPOSITION_RESEARCH", "MEDIA_BLITZ">>

ActionTypeSet == {ActionTypes[i] : i \in 1..Len(ActionTypes)}

\* base_support_change is in tenths of a point (3.0 is 30, -2.5 is -25)
ACTION_DEFINITIONS ==
    [FUNDRAISER |-> [cost |-> 0, base_support_change |-> 0,
                     momentum_change |-> -5, target_states |-> 0],
     RALLY |-> [cost |-> 2, base_support_change |-> 30,
                momentum_change |-> 5, target_states |-> 1],
     AD_CAMPAIGN |-> [cost |-> 4, base_support_change |-> 20,
                      momentum_change |-> 3, target_states |-> 3],
     GRASSROOTS |-> [cost |-> 1, base_support_change |-> 15,
                     momentum_change |-> 2, target_states |-> 2],
     DEBATE_PREP |-> [cost |-> 1, base_support_change |-> 0,
                      momentum_change |-> 10, target_states |-> 0],
     OPPOSITION_RESEARCH |-> [cost |-> 3, base_support_change |-> -25,
                              momentum_change |-> 0, target_states |-> 0],
     MEDIA_BLITZ |-> [cost |-> 3, base_support_change |-> 15,
                      momentum_change |-> 8, target_states |-> 0]]

get_action_definition(action_type) == ACTION_DEFINITIONS[action_type]

-----------------------------------------------------------------------------
(* data/states_data.py                                                     *)

StateOrder == <<"CA", "NY", "IL", "BC", "FL", "PA", "GA", "MI", "AZ", "WI",
                "OH", "NC", "TX", "RC">>

Abbrevs == {StateOrder[i] : i \in 1..Len(StateOrder)}

INITIAL_STATES_CONFIG ==
    [CA |-> [electoral_votes |-> 54, incumbent_support |-> 580,
             challenger_support |-> 380, lean |-> "Safe Inc"],
     NY |-> [electoral_votes |-> 28, incumbent_support |-> 560,
             challenger_support |-> 400, lean |-> "Safe Inc"],
     IL |-> [electoral_votes |-> 19, incumbent_support |-> 550,
             challenger_support |-> 410, lean |-> "Safe Inc"],
     BC |-> [electoral_votes |-> 127, incumbent_support |-> 520,
             challenger_support |-> 440, lean |-> "Lean Inc"],
     FL |-> [electoral_votes |-> 30, incumbent_support |-> 480,
             challenger_support |-> 480, lean |-> "Tossup"],
     PA |-> [electoral_votes |-> 19, incumbent_support |-> 490,
             challenger_support |-> 470, lean |-> "Tossup"],
     GA |-> [electoral_votes |-> 16, incumbent_support |-> 470,
             challenger_support |-> 490, lean |-> "Tossup"],
     MI |-> [electoral_votes |-> 15, incumbent_support |-> 485,
             challenger_support |-> 475, lean |-> "Tossup"],
     AZ |-> [electoral_votes |-> 11, incumbent_support |-> 470,
             challenger_support |-> 480, lean |-> "Tossup"],
     WI |-> [electoral_votes |-> 10, incumbent_support |-> 480,
             challenger_support |-> 480, lean |-> "Tossup"],
     OH |-> [electoral_votes |-> 17, incumbent_support |-> 440,
             challenger_support |-> 520, lean |-> "Lean Chl"],
     NC |-> [electoral_votes |-> 16, incumbent_support |-> 450,
             challenger_support |-> 510, lean |-> "Lean Chl"],
     TX |-> [electoral_votes |-> 40, incumbent_support |-> 420,
             challenger_support |-> 540, lean |-> "Safe Chl"],
     RC |-> [electoral_votes |-> 136, incumbent_support |-> 380,
             challenger_support |-> 580, lean |-> "Safe Chl"]]

create_initial_states == [a \in Abbrevs |-> INITIAL_STATES_CONFIG[a]]

-----------------------------------------------------------------------------
(* models/state.py                                                         *)

\* units per tenth of a point
UnitsPerTenth == 2 * 200

\* 100.0 in tenths and in units
HundredTenths == 100 * 10
HundredUnits == HundredTenths * UnitsPerTenth

Max2(a, b) == IF a >= b THEN a ELSE b
Min2(a, b) == IF a <= b THEN a ELSE b
Abs(a) == IF a >= 0 THEN a ELSE -a

\* round(n/d, 0) for n >= 0, d > 0: nearest, and on an exact tie the side
\* the float happens to lie on (up)
RoundRatio(n, d, up) ==
    LET q == n \div d
        r == n % d
    IN  IF 2 * r < d THEN q
        ELSE IF 2 * r > d THEN q + 1
        ELSE IF up THEN q + 1 ELSE q

\* State._calculate_lean(margin), margin = num/den points, den > 0
calculate_lean(num, den) ==
    IF num >= 15 * den THEN "Safe Inc"
    ELSE IF num >= 5 * den THEN "Lean Inc"
    ELSE IF num > (-5) * den THEN "Tossup"
    ELSE IF num > (-15) * den THEN "Lean Chl"
    ELSE "Safe Chl"

\* State.margin, in tenths
Margin(st) == st.incumbent_support - st.challenger_support

\* apply_support_change without the rescaling of a total above 100
apply_support_change_unscaled(st, incumbent_change, challenger_change, up) ==
    LET new_incumbent ==
            Max2(0, Min2(HundredUnits,
                 st.incumbent_support * UnitsPerTenth + incumbent_change))
        new_challenger ==
            Max2(0, Min2(HundredUnits,
                 st.challenger_support * UnitsPerTenth + challenger_change))
    IN  [st EXCEPT
            !.incumbent_support = RoundRatio(new_incumbent, UnitsPerTenth, up),
            !.challenger_support = RoundRatio(new_challenger, UnitsPerTenth, up),
            !.lean = calculate_lean(new_incumbent - new_challenger,
                                    10 * UnitsPerTenth)]

\* apply_support_change multiplying only the incumbent's support by the
\* ratio
apply_support_change_incumbent_scaled(st, incumbent_change, challenger_change, up) ==
    LET new_incumbent ==
            Max2(0, Min2(HundredUnits,
                 st.incumbent_support * UnitsPerTenth + incumbent_change))
        new_challenger ==
            Max2(0, Min2(HundredUnits,
                 st.challenger_support * UnitsPerTenth + challenger_change))
        total == new_incumbent + new_challenger
    IN  IF total > HundredUnits
        THEN [st EXCEPT
                !.incumbent_support =
                    RoundRatio(new_incumbent * HundredTenths, total, up),
                !.challenger_support =
                    RoundRatio(new_challenger, UnitsPerTenth, up),
                !.lean = calculate_lean((new_incumbent - new_challenger) * 100,
                                        total)]
        ELSE [st EXCEPT
                !.incumbent_support =
                    RoundRatio(new_incumbent, UnitsPerTenth, up),
                !.challenger_support =
                    RoundRatio(new_challenger, UnitsPerTenth, up),
                !.lean = calculate_lean(new_incumbent - new_challenger,
                                        10 * UnitsPerTenth)]

\* State.apply_support_change; the changes are in units
apply_support_change(st, incumbent_change, challenger_change, up) ==
    LET new_incumbent ==
            Max2(0, Min2(HundredUnits,
                 st.incumbent_support * UnitsPerTenth + incumbent_change))
        new_challenger ==
            Max2(0, Min2(HundredUnits,
                 st.challenger_support * UnitsPerTenth + challenger_change))
        total == new_incumbent + new_challenger
    IN  IF total > HundredUnits
        THEN \* both are multiplied by ratio = 100.0 / total
             [st EXCEPT
                !.incumbent_support =
                    RoundRatio(new_incumbent * HundredTenths, total, up),
                !.challenger_support =
                    RoundRatio(new_challenger * HundredTenths, total, up),
                !.lean = calculate_lean((new_incumbent - new_challenger) * 100,
                                        total)]
        ELSE [st EXCEPT
                !.incumbent_support =
                    RoundRatio(new_incumbent, UnitsPerTenth, up),
                !.challenger_support =
                    RoundRatio(new_challenger, UnitsPerTenth, up),
                !.lean = calculate_lean(new_incumbent - new_challenger,
                                        10 * UnitsPerTenth)]

-----------------------------------------------------------------------------
(* models/player.py                                                        *)

MIN_MOMENTUM == -100
MAX_MOMENTUM == 100

NewPlayer == [funds |-> 15, momentum |-> 0]

\* Player.momentum_modifier = 1.0 + momentum / 200.0, as a count of 200ths
momentum_modifier(player) == 200 + player.momentum

\* can_afford without the comparison of funds and cost
can_afford_anything(player, cost) == TRUE

can_afford(player, cost) == player.funds >= cost

adjust_momentum(player, change) ==
    [player EXCEPT !.momentum =
        Max2(MIN_MOMENTUM, Min2(MAX_MOMENTUM, player.momentum + change))]

\* Player.update without the limits on momentum
update_unlimited_momentum(player, funds_change, momentum_change) ==
    [funds |-> Max2(0, player.funds + funds_change),
     momentum |-> player.momentum + momentum_change]

\* Player.update
update(player, funds_change, momentum_change) ==
    [funds |-> Max2(0, player.funds + funds_change),
     momentum |-> Max2(MIN_MOMENTUM,
                       Min2(MAX_MOMENTUM, player.momentum + momentum_change))]

-----------------------------------------------------------------------------
(* models/game_state.py                                                    *)

NoGame == [none |-> TRUE]

NoWinner == "None"

\* new_game reusing the players of the game in progress
NewGameStateKeepingPlayers ==
    [incumbent |-> IF gs = NoGame THEN NewPlayer ELSE gs.incumbent,
     challenger |-> IF gs = NoGame THEN NewPlayer ELSE gs.challenger,
     states |-> create_initial_states,
     current_turn |-> 1,
     max_turns |-> 20,
     events_log |-> <<>>,
     game_over |-> FALSE,
     winner |-> NoWinner]

\* the GameState built by GameEngine.new_game
NewGameState ==
    [incumbent |-> NewPlayer,
     challenger |-> NewPlayer,
     states |-> create_initial_states,
     current_turn |-> 1,
     max_turns |-> 20,
     events_log |-> <<>>,
     game_over |-> FALSE,
     winner |-> NoWinner]

RECURSIVE SumEVs(_, _)
\* sum of electoral_votes over the states in S
SumEVs(states, S) ==
    IF S = {} THEN 0
    ELSE LET a == CHOOSE x \in S : TRUE
         IN  states[a].electoral_votes + SumEVs(states, S \ {a})

total_electoral_votes(g) == SumEVs(g.states, DOMAIN g.states)

\* advance_turn skipping a turn
advance_turn_by_two(g) == [g EXCEPT !.current_turn = g.current_turn + 2]

advance_turn(g) == [g EXCEPT !.current_turn = g.current_turn + 1]

end_game_state(g, winner) == [g EXCEPT !.game_over = TRUE, !.winner = winner]

\* with_players putting the new player in both places
with_players_both(g, is_incumbent, new_player) ==
    [g EXCEPT !.incumbent = new_player, !.challenger = new_player]

with_players(g, is_incumbent, new_player) ==
    IF is_incumbent THEN [g EXCEPT !.incumbent = new_player]
    ELSE [g EXCEPT !.challenger = new_player]

Actor(g, is_incumbent) == IF is_incumbent THEN g.incumbent ELSE g.challenger

-----------------------------------------------------------------------------
(* engine/action_processor.py                                              *)

FUNDRAISER_MIN == 3
FUNDRAISER_MAX == 6

EmptyMap == [a \in {} |-> 0]

NoResult == [none |-> TRUE]

\* the first n elements of a sequence (a Python slice s[:n])
Take(s, n) == SubSeq(s, 1, Min2(n, Len(s)))

RECURSIVE FirstMin(_, _, _)
\* the first element of seq (from index i on) with the least key
FirstMin(seq, key, i) ==
    IF i = Len(seq) THEN seq[i]
    ELSE LET rest == FirstMin(seq, key, i + 1)
         IN  IF key[seq[i]] <= key[rest] THEN seq[i] ELSE rest

Without(seq, x) == SelectSeq(seq, LAMBDA y : y # x)

RECURSIVE StableSort(_, _)
\* sorted(seq, key), stable as Python's sort is
StableSort(seq, key) ==
    IF seq = <<>> THEN <<>>
    ELSE LET m == FirstMin(seq, key, 1)
         IN  <<m>> \o StableSort(Without(seq, m), key)

\* _select_target_states sorting by the margin itself, not its absolute value
select_target_states_signed_margin(g, count) ==
    LET key == [a \in Abbrevs |-> Margin(g.states[a])]
    IN  Take(StableSort(StateOrder, key), count)

\* ActionProcessor._select_target_states
select_target_states(g, count) ==
    LET key == [a \in Abbrevs |-> Abs(Margin(g.states[a]))]
    IN  Take(StableSort(StateOrder, key), count)

\* the branch on is_incumbent taken the wrong way round
ApplyToOtherSide(st, is_incumbent, effect, up) ==
    IF is_incumbent THEN apply_support_change(st, 0, effect, up)
    ELSE apply_support_change(st, effect, 0, up)

ApplyTo(st, is_incumbent, effect, up) ==
    IF is_incumbent THEN apply_support_change(st, effect, 0, up)
    ELSE apply_support_change(st, 0, effect, up)

RECURSIVE ApplyTargets(_, _, _, _, _, _)
\* the loop over target_states of _execute_targeted_action, from index i on
ApplyTargets(states, targets, i, is_incumbent, effect, up) ==
    IF i > Len(targets) THEN states
    ELSE IF targets[i] \in DOMAIN states
         THEN ApplyTargets(
                 [states EXCEPT ![targets[i]] =
                     ApplyTo(states[targets[i]], is_incumbent, effect, up)],
                 targets, i + 1, is_incumbent, effect, up)
         ELSE ApplyTargets(states, targets, i + 1, is_incumbent, effect, up)

SeqRange(s) == {s[i] : i \in 1..Len(s)}

FailureResult(action_type) ==
    [action_type |-> action_type, success |-> FALSE, funds_spent |-> 0,
     funds_raised |-> 0, support_changes |-> EmptyMap, momentum_change |-> 0,
     affected_states |-> <<>>]

\* _execute_fundraiser without the momentum change of the action
execute_fundraiser_keeping_momentum(g, is_incumbent, definition, funds_raised) ==
    LET player == Actor(g, is_incumbent)
        new_player == update(player, funds_raised, 0)
    IN  [state |-> with_players(g, is_incumbent, new_player),
         result |-> [action_type |-> "FUNDRAISER", success |-> TRUE,
                     funds_spent |-> 0, funds_raised |-> funds_raised,
                     support_changes |-> EmptyMap,
                     momentum_change |-> definition.momentum_change,
                     affected_states |-> <<>>]]

execute_fundraiser(g, is_incumbent, definition, funds_raised) ==
    LET player == Actor(g, is_incumbent)
        new_player == update(player, funds_raised, definition.momentum_change)
    IN  [state |-> with_players(g, is_incumbent, new_player),
         result |-> [action_type |-> "FUNDRAISER", success |-> TRUE,
                     funds_spent |-> 0, funds_raised |-> funds_raised,
                     support_changes |-> EmptyMap,
                     momentum_change |-> definition.momentum_change,
                     affected_states |-> <<>>]]

\* _execute_opposition_research without the momentum of the player
execute_opposition_research_unscaled(g, is_incumbent, definition, up) ==
    LET player == Actor(g, is_incumbent)
        new_player == update(player, -definition.cost,
                             definition.momentum_change)
        \* effect = base_support_change, in units
        effect == definition.base_support_change * UnitsPerTenth
        new_states == [a \in DOMAIN g.states |->
                         ApplyTo(g.states[a], ~is_incumbent, effect, up)]
    IN  [state |-> [with_players(g, is_incumbent, new_player)
                        EXCEPT !.states = new_states],
         result |-> [action_type |-> "OPPOSITION_RESEARCH", success |-> TRUE,
                     funds_spent |-> definition.cost, funds_raised |-> 0,
                     support_changes |-> [a \in DOMAIN g.states |-> effect],
                     momentum_change |-> definition.momentum_change,
                     affected_states |-> StateOrder]]

execute_opposition_research(g, is_incumbent, definition, up) ==
    LET player == Actor(g, is_incumbent)
        new_player == update(player, -definition.cost,
                             definition.momentum_change)
        \* effect = base_support_change * momentum_modifier, in units
        effect == definition.base_support_change * momentum_modifier(player) * 2
        new_states == [a \in DOMAIN g.states |->
                         ApplyTo(g.states[a], ~is_incumbent, effect, up)]
    IN  [state |-> [with_players(g, is_incumbent, new_player)
                        EXCEPT !.states = new_states],
         result |-> [action_type |-> "OPPOSITION_RESEARCH", success |-> TRUE,
                     funds_spent |-> definition.cost, funds_raised |-> 0,
                     support_changes |-> [a \in DOMAIN g.states |-> effect],
                     momentum_change |-> definition.momentum_change,
                     affected_states |-> StateOrder]]

\* _execute_targeted_action without the limit on the number of targets
execute_targeted_action_untruncated(g, action_type, is_incumbent, definition, target_states, up) ==
    LET player == Actor(g, is_incumbent)
        selected == IF target_states = <<>>
                    THEN select_target_states(g, definition.target_states)
                    ELSE target_states
        targets == selected
        new_player == update(player, -definition.cost,
                             definition.momentum_change)
        effect == definition.base_support_change * momentum_modifier(player) * 2
        new_states == ApplyTargets(g.states, targets, 1, is_incumbent,
                                   effect, up)
    IN  [state |-> [with_players(g, is_incumbent, new_player)
                        EXCEPT !.states = new_states],
         result |-> [action_type |-> action_type, success |-> TRUE,
                     funds_spent |-> definition.cost, funds_raised |-> 0,
                     support_changes |->
                         [a \in SeqRange(targets) \cap DOMAIN g.states
                             |-> effect],
                     momentum_change |-> definition.momentum_change,
                     affected_states |-> targets]]

\* _execute_targeted_action taking momentum_modifier from the updated player
execute_targeted_action_momentum_after(g, action_type, is_incumbent, definition, target_states, up) ==
    LET player == Actor(g, is_incumbent)
        selected == IF target_states = <<>>
                    THEN select_target_states(g, definition.target_states)
                    ELSE target_states
        targets == Take(selected, definition.target_states)
        new_player == update(player, -definition.cost,
                             definition.momentum_change)
        effect == definition.base_support_change
                     * momentum_modifier(new_player) * 2
        new_states == ApplyTargets(g.states, targets, 1, is_incumbent,
                                   effect, up)
    IN  [state |-> [with_players(g, is_incumbent, new_player)
                        EXCEPT !.states = new_states],
         result |-> [action_type |-> action_type, success |-> TRUE,
                     funds_spent |-> definition.cost, funds_raised |-> 0,
                     support_changes |->
                         [a \in SeqRange(targets) \cap DOMAIN g.states
                             |-> effect],
                     momentum_change |-> definition.momentum_change,
                     affected_states |-> targets]]

execute_targeted_action(g, action_type, is_incumbent, definition, target_states, up) ==
    LET player == Actor(g, is_incumbent)
        selected == IF target_states = <<>>
                    THEN select_target_states(g, definition.target_states)
                    ELSE target_states
        targets == Take(selected, definition.target_states)
        new_player == update(player, -definition.cost,
                             definition.momentum_change)
        effect == definition.base_support_change * momentum_modifier(player) * 2
        new_states == ApplyTargets(g.states, targets, 1, is_incumbent,
                                   effect, up)
    IN  [state |-> [with_players(g, is_incumbent, new_player)
                        EXCEPT !.states = new_states],
         result |-> [action_type |-> action_type, success |-> TRUE,
                     funds_spent |-> definition.cost, funds_raised |-> 0,
                     support_changes |->
                         [a \in SeqRange(targets) \cap DOMAIN g.states
                             |-> effect],
                     momentum_change |-> definition.momentum_change,
                     affected_states |-> targets]]

\* _execute_national_action without the halving of the effect
execute_national_action_full_strength(g, action_type, is_incumbent, definition, up) ==
    LET player == Actor(g, is_incumbent)
        new_player == update(player, -definition.cost,
                             definition.momentum_change)
        \* base_support_change * momentum_modifier, in units
        effect == definition.base_support_change * momentum_modifier(player) * 2
        new_states == [a \in DOMAIN g.states |->
                         ApplyTo(g.states[a], is_incumbent, effect, up)]
    IN  [state |-> [with_players(g, is_incumbent, new_player)
                        EXCEPT !.states = new_states],
         result |-> [action_type |-> action_type, success |-> TRUE,
                     funds_spent |-> definition.cost, funds_raised |-> 0,
                     support_changes |-> [a \in DOMAIN g.states |-> effect],
                     momentum_change |-> definition.momentum_change,
                     affected_states |-> StateOrder]]

execute_national_action(g, action_type, is_incumbent, definition, up) ==
    LET player == Actor(g, is_incumbent)
        new_player == update(player, -definition.cost,
                             definition.momentum_change)
        \* (base_support_change * momentum_modifier) * 0.5, in units
        effect == definition.base_support_change * momentum_modifier(player)
        new_states == [a \in DOMAIN g.states |->
                         ApplyTo(g.states[a], is_incumbent, effect, up)]
    IN  [state |-> [with_players(g, is_incumbent, new_player)
                        EXCEPT !.states = new_states],
         result |-> [action_type |-> action_type, success |-> TRUE,
                     funds_spent |-> definition.cost, funds_raised |-> 0,
                     support_changes |-> [a \in DOMAIN g.states |-> effect],
                     momentum_change |-> definition.momentum_change,
                     affected_states |-> StateOrder]]

\* ActionProcessor.execute_action; funds_raised is the draw of
\* randint(FUNDRAISER_MIN, FUNDRAISER_MAX), up the direction of rounding ties
execute_action(g, action_type, is_incumbent, target_states, funds_raised, up) ==
    LET definition == get_action_definition(action_type)
        player == Actor(g, is_incumbent)
    IN  IF ~can_afford(player, definition.cost)
        THEN [state |-> g, result |-> FailureResult(action_type)]
        ELSE IF action_type = "FUNDRAISER"
        THEN execute_fundraiser(g, is_incumbent, definition, funds_raised)
        ELSE IF action_type = "OPPOSITION_RESEARCH"
        THEN execute_opposition_research(g, is_incumbent, definition, up)
        ELSE IF definition.target_states > 0
        THEN execute_targeted_action(g, action_type, is_incumbent, definition,
                                     target_states, up)
        ELSE execute_national_action(g, action_type, is_incumbent, definition,
                                     up)

\* get_affordable_actions leaving out an action that takes all the funds
get_affordable_actions_below_funds(player) ==
    {t \in ActionTypeSet : player.funds > get_action_definition(t).cost}

\* ActionProcessor.get_affordable_actions, as the set of action types
get_affordable_actions(player) ==
    {t \in ActionTypeSet : can_afford(player, get_action_definition(t).cost)}

-----------------------------------------------------------------------------
(* engine/electoral_calculator.py                                          *)

VOTES_TO_WIN == 270
LANDSLIDE_MARGIN == 100

NoElection == [none |-> TRUE]

IncumbentLeads(states) ==
    {a \in DOMAIN states :
        states[a].incumbent_support > states[a].challenger_support}

ChallengerLeads(states) ==
    {a \in DOMAIN states :
        states[a].challenger_support > states[a].incumbent_support}

TiedStates(states) ==
    DOMAIN states \ (IncumbentLeads(states) \cup ChallengerLeads(states))

\* calculate_current_evs giving a tied state to the incumbent as well
calculate_current_evs_ties_twice(g) ==
    <<SumEVs(g.states, IncumbentLeads(g.states) \cup TiedStates(g.states)),
      SumEVs(g.states, ChallengerLeads(g.states)),
      SumEVs(g.states, TiedStates(g.states))>>

\* ElectoralCalculator.calculate_current_evs: <<incumbent, challenger, tied>>
calculate_current_evs(g) ==
    <<SumEVs(g.states, IncumbentLeads(g.states)),
      SumEVs(g.states, ChallengerLeads(g.states)),
      SumEVs(g.states, TiedStates(g.states))>>

\* the winner rule with an exact tie going to the challenger
determine_winner_tie_to_challenger(incumbent_evs, challenger_evs) ==
    IF incumbent_evs >= VOTES_TO_WIN THEN "Incumbent"
    ELSE IF challenger_evs >= VOTES_TO_WIN THEN "Challenger"
    ELSE IF incumbent_evs > challenger_evs THEN "Incumbent"
    ELSE "Challenger"

\* the winner rule of calculate_final_result
determine_winner(incumbent_evs, challenger_evs) ==
    IF incumbent_evs >= VOTES_TO_WIN THEN "Incumbent"
    ELSE IF challenger_evs >= VOTES_TO_WIN THEN "Challenger"
    ELSE IF incumbent_evs > challenger_evs THEN "Incumbent"
    ELSE IF challenger_evs > incumbent_evs THEN "Challenger"
    ELSE "Incumbent"

\* winner, margin and is_landslide of the ElectionResult
final_outcome(incumbent_evs, challenger_evs) ==
    LET margin == incumbent_evs - challenger_evs
    IN  [winner |-> determine_winner(incumbent_evs, challenger_evs),
         margin |-> margin,
         is_landslide |-> Abs(margin) >= LANDSLIDE_MARGIN]

RECURSIVE WeightedSupport(_, _, _)
\* sum of support * electoral_votes over the states in S (support in tenths)
WeightedSupport(states, S, incumbent) ==
    IF S = {} THEN 0
    ELSE LET a == CHOOSE x \in S : TRUE
             sup == IF incumbent THEN states[a].incumbent_support
                    ELSE states[a].challenger_support
         IN  sup * states[a].electoral_votes
                + WeightedSupport(states, S \ {a}, incumbent)

\* calculate_final_result without the coin flip: a tied state is awarded
\* to neither side
calculate_final_result_ties_unresolved(g, flips, up) ==
    LET inc_states == IncumbentLeads(g.states)
        chl_states == ChallengerLeads(g.states)
        incumbent_evs == SumEVs(g.states, inc_states)
        challenger_evs == SumEVs(g.states, chl_states)
        total_evs == SumEVs(g.states, DOMAIN g.states)
        outcome == final_outcome(incumbent_evs, challenger_evs)
    IN  [winner |-> outcome.winner,
         incumbent_evs |-> incumbent_evs,
         challenger_evs |-> challenger_evs,
         incumbent_popular |->
            RoundRatio(WeightedSupport(g.states, DOMAIN g.states, TRUE),
                       total_evs, up),
         challenger_popular |->
            RoundRatio(WeightedSupport(g.states, DOMAIN g.states, FALSE),
                       total_evs, up),
         state_results |->
            [a \in DOMAIN g.states |->
                IF a \in inc_states THEN "Incumbent"
                ELSE IF a \in chl_states THEN "Challenger" ELSE "Tied"],
         margin |-> outcome.margin,
         is_landslide |-> outcome.is_landslide]

\* calculate_final_result awarding a tied state to nobody when the coin
\* comes down against the incumbent
calculate_final_result_losing_flips(g, flips, up) ==
    LET inc_states == IncumbentLeads(g.states)
                        \cup {a \in TiedStates(g.states) : flips[a]}
        chl_states == ChallengerLeads(g.states)
        incumbent_evs == SumEVs(g.states, inc_states)
        challenger_evs == SumEVs(g.states, chl_states)
        total_evs == SumEVs(g.states, DOMAIN g.states)
        outcome == final_outcome(incumbent_evs, challenger_evs)
    IN  [winner |-> outcome.winner,
         incumbent_evs |-> incumbent_evs,
         challenger_evs |-> challenger_evs,
         incumbent_popular |->
            RoundRatio(WeightedSupport(g.states, DOMAIN g.states, TRUE),
                       total_evs, up),
         challenger_popular |->
            RoundRatio(WeightedSupport(g.states, DOMAIN g.states, FALSE),
                       total_evs, up),
         state_results |->
            [a \in DOMAIN g.states |->
                IF a \in inc_states THEN "Incumbent" ELSE "Challenger"],
         margin |-> outcome.margin,
         is_landslide |-> outcome.is_landslide]

\* ElectoralCalculator.calculate_final_result; flips[a] is the outcome of
\* random.choice([True, False]) for the tied state a
calculate_final_result(g, flips, up) ==
    LET inc_states == IncumbentLeads(g.states)
                        \cup {a \in TiedStates(g.states) : flips[a]}
        chl_states == DOMAIN g.states \ inc_states
        incumbent_evs == SumEVs(g.states, inc_states)
        challenger_evs == SumEVs(g.states, chl_states)
        total_evs == SumEVs(g.states, DOMAIN g.states)
        outcome == final_outcome(incumbent_evs, challenger_evs)
    IN  [winner |-> outcome.winner,
         incumbent_evs |-> incumbent_evs,
         challenger_evs |-> challenger_evs,
         incumbent_popular |->
            RoundRatio(WeightedSupport(g.states, DOMAIN g.states, TRUE),
                       total_evs, up),
         challenger_popular |->
            RoundRatio(WeightedSupport(g.states, DOMAIN g.states, FALSE),
                       total_evs, up),
         state_results |->
            [a \in DOMAIN g.states |->
                IF a \in inc_states THEN "Incumbent" ELSE "Challenger"],
         margin |-> outcome.margin,
         is_landslide |-> outcome.is_landslide]

\* the coin flips calculate_final_result may draw for g
CoinFlips(g) == [TiedStates(g.states) -> BOOLEAN]

-----------------------------------------------------------------------------
(* engine/event_generator.py                                               *)

\* support ranges in tenths, momentum ranges as integers
EVENT_EFFECTS ==
    [SCANDAL |-> [support |-> <<-40, -20>>, momentum |-> <<-15, -5>>],
     ECONOMIC |-> [support |-> <<-20, 20>>, momentum |-> <<-10, 10>>],
     ENDORSEMENT |-> [support |-> <<15, 35>>, momentum |-> <<5, 15>>],
     GAFFE |-> [support |-> <<-30, -10>>, momentum |-> <<-10, -5>>],
     CRISIS |-> [support |-> <<-30, 30>>, momentum |-> <<-5, 15>>],
     VIRAL |-> [support |-> <<10, 30>>, momentum |-> <<5, 20>>]]

EventTypes == {"SCANDAL", "ECONOMIC", "ENDORSEMENT", "GAFFE", "CRISIS", "VIRAL"}

\* generate_event stamping the event with the turn after the current one
generate_event_next_turn(g, event_type, affects_incumbent, support_change, momentum_change, affected_states) ==
    [event_type |-> event_type,
     affects_incumbent |-> affects_incumbent,
     support_change |-> support_change,
     momentum_change |-> momentum_change,
     affected_states |-> affected_states,
     turn_occurred |-> g.current_turn + 1]

\* EventGenerator.generate_event, given what the generator drew: the type,
\* who is affected, the rounded support change (tenths), the momentum change
\* and the sampled states (empty when the event is national)
generate_event(g, event_type, affects_incumbent, support_change, momentum_change, affected_states) ==
    [event_type |-> event_type,
     affects_incumbent |-> affects_incumbent,
     support_change |-> support_change,
     momentum_change |-> momentum_change,
     affected_states |-> affected_states,
     turn_occurred |-> g.current_turn]

RECURSIVE ApplyEventStates(_, _, _, _, _, _)
\* the loop over event.affected_states of apply_event, from index i on
ApplyEventStates(states, targets, i, affects_incumbent, change, up) ==
    IF i > Len(targets) THEN states
    ELSE IF targets[i] \in DOMAIN states
         THEN ApplyEventStates(
                 [states EXCEPT ![targets[i]] =
                     ApplyTo(states[targets[i]], affects_incumbent, change, up)],
                 targets, i + 1, affects_incumbent, change, up)
         ELSE ApplyEventStates(states, targets, i + 1, affects_incumbent,
                               change, up)

\* apply_event without the halving of a national event
apply_event_full_national(g, event, up) ==
    LET new_incumbent == IF event.affects_incumbent
                         THEN adjust_momentum(g.incumbent, event.momentum_change)
                         ELSE g.incumbent
        new_challenger == IF event.affects_incumbent
                          THEN g.challenger
                          ELSE adjust_momentum(g.challenger,
                                               event.momentum_change)
        new_states ==
            IF event.affected_states = <<>>
            THEN \* national: support_change, in units
                 [a \in DOMAIN g.states |->
                    ApplyTo(g.states[a], event.affects_incumbent,
                            event.support_change * UnitsPerTenth, up)]
            ELSE ApplyEventStates(g.states, event.affected_states, 1,
                                  event.affects_incumbent,
                                  event.support_change * UnitsPerTenth, up)
    IN  [g EXCEPT !.incumbent = new_incumbent,
                  !.challenger = new_challenger,
                  !.states = new_states,
                  !.events_log = Append(g.events_log, event)]

\* EventGenerator.apply_event
apply_event(g, event, up) ==
    LET new_incumbent == IF event.affects_incumbent
                         THEN adjust_momentum(g.incumbent, event.momentum_change)
                         ELSE g.incumbent
        new_challenger == IF event.affects_incumbent
                          THEN g.challenger
                          ELSE adjust_momentum(g.challenger,
                                               event.momentum_change)
        new_states ==
            IF event.affected_states = <<>>
            THEN \* national: support_change * 0.5, in units
                 [a \in DOMAIN g.states |->
                    ApplyTo(g.states[a], event.affects_incumbent,
                            event.support_change * (UnitsPerTenth \div 2), up)]
            ELSE ApplyEventStates(g.states, event.affected_states, 1,
                                  event.affects_incumbent,
                                  event.support_change * UnitsPerTenth, up)
    IN  [g EXCEPT !.incumbent = new_incumbent,
                  !.challenger = new_challenger,
                  !.states = new_states,
                  !.events_log = Append(g.events_log, event)]

-----------------------------------------------------------------------------
(* ai/ai_opponent.py                                                       *)

LOSING_THRESHOLD == 30
WINNING_THRESHOLD == 30
LOW_FUNDS_THRESHOLD == 2

\* the weight tables, in hundredths
AGGRESSIVE_WEIGHTS ==
    [FUNDRAISER |-> 5, RALLY |-> 15, AD_CAMPAIGN |-> 25, GRASSROOTS |-> 5,
     DEBATE_PREP |-> 5, OPPOSITION_RESEARCH |-> 30, MEDIA_BLITZ |-> 15]

DEFENSIVE_WEIGHTS ==
    [FUNDRAISER |-> 10, RALLY |-> 20, AD_CAMPAIGN |-> 15, GRASSROOTS |-> 25,
     DEBATE_PREP |-> 20, OPPOSITION_RESEARCH |-> 5, MEDIA_BLITZ |-> 5]

BALANCED_WEIGHTS ==
    [FUNDRAISER |-> 10, RALLY |-> 20, AD_CAMPAIGN |-> 20, GRASSROOTS |-> 15,
     DEBATE_PREP |-> 10, OPPOSITION_RESEARCH |-> 10, MEDIA_BLITZ |-> 15]

FUNDRAISING_WEIGHTS ==
    [FUNDRAISER |-> 70, RALLY |-> 5, AD_CAMPAIGN |-> 5, GRASSROOTS |-> 10,
     DEBATE_PREP |-> 5, OPPOSITION_RESEARCH |-> 0, MEDIA_BLITZ |-> 5]

\* determine_strategy looking at the funds only in a close race
determine_strategy_position_first(g) ==
    LET evs == calculate_current_evs(g)
        ev_diff == evs[2] - evs[1]
    IN  IF ev_diff <= -LOSING_THRESHOLD THEN "AGGRESSIVE"
        ELSE IF ev_diff >= WINNING_THRESHOLD THEN "DEFENSIVE"
        ELSE IF g.challenger.funds < LOW_FUNDS_THRESHOLD THEN "FUNDRAISING"
        ELSE "BALANCED"

\* AIOpponent.determine_strategy
determine_strategy(g) ==
    IF g.challenger.funds < LOW_FUNDS_THRESHOLD THEN "FUNDRAISING"
    ELSE LET evs == calculate_current_evs(g)
             ev_diff == evs[2] - evs[1]
         IN  IF ev_diff <= -LOSING_THRESHOLD THEN "AGGRESSIVE"
             ELSE IF ev_diff >= WINNING_THRESHOLD THEN "DEFENSIVE"
             ELSE "BALANCED"

get_weights_for_strategy(strategy) ==
    CASE strategy = "AGGRESSIVE" -> AGGRESSIVE_WEIGHTS
      [] strategy = "DEFENSIVE" -> DEFENSIVE_WEIGHTS
      [] strategy = "BALANCED" -> BALANCED_WEIGHTS
      [] strategy = "FUNDRAISING" -> FUNDRAISING_WEIGHTS

\* _select_target_states preferring the state with fewer electoral votes
ai_select_target_states_small_first(g, action_type) ==
    LET definition == get_action_definition(action_type)
        key == [a \in Abbrevs |->
                  Abs(Margin(g.states[a])) * 1000
                    + g.states[a].electoral_votes]
    IN  IF definition.target_states = 0 THEN <<>>
        ELSE Take(StableSort(StateOrder, key), definition.target_states)

\* AIOpponent._select_target_states; no targets (None) is <<>>
ai_select_target_states(g, action_type) ==
    LET definition == get_action_definition(action_type)
        \* key (abs(margin), -electoral_votes), as one number
        key == [a \in Abbrevs |->
                  Abs(Margin(g.states[a])) * 1000
                    + (999 - g.states[a].electoral_votes)]
    IN  IF definition.target_states = 0 THEN <<>>
        ELSE Take(StableSort(StateOrder, key), definition.target_states)

\* all action types, affordable or not
AffordableSeqUnfiltered(g) == ActionTypes

\* the affordable action types, in the order of the weight table
AffordableSeq(g) ==
    SelectSeq(ActionTypes,
              LAMBDA t : can_afford(g.challenger,
                                    get_action_definition(t).cost))

RECURSIVE SumWeights(_, _, _)
\* the sum of the weights of seq[1..n]
SumWeights(weights, seq, n) ==
    IF n = 0 THEN 0
    ELSE weights[seq[n]] + SumWeights(weights, seq, n - 1)

\* total_weight of choose_action, in hundredths
TotalWeight(g) ==
    LET seq == AffordableSeq(g)
    IN  SumWeights(get_weights_for_strategy(determine_strategy(g)), seq,
                   Len(seq))

\* choose_action comparing roll < cumulative
choose_action_strict(g, roll) ==
    LET weights == get_weights_for_strategy(determine_strategy(g))
        seq == AffordableSeq(g)
        hits == {i \in 1..Len(seq) : roll < SumWeights(weights, seq, i)}
    IN  IF seq = <<>>
        THEN [action_type |-> "FUNDRAISER", targets |-> <<>>,
              fallback |-> FALSE]
        ELSE IF SumWeights(weights, seq, Len(seq)) = 0
        THEN [action_type |-> "FUNDRAISER", targets |-> <<>>,
              fallback |-> FALSE]
        ELSE IF hits = {}
        THEN [action_type |-> "FUNDRAISER", targets |-> <<>>,
              fallback |-> TRUE]
        ELSE LET i == CHOOSE j \in hits : \A k \in hits : j <= k
             IN  [action_type |-> seq[i],
                  targets |-> ai_select_target_states(g, seq[i]),
                  fallback |-> FALSE]

\* AIOpponent.choose_action; roll = random() * total_weight, in hundredths;
\* fallback tells that the return after the loop was taken
choose_action(g, roll) ==
    LET weights == get_weights_for_strategy(determine_strategy(g))
        seq == AffordableSeq(g)
        hits == {i \in 1..Len(seq) : roll <= SumWeights(weights, seq, i)}
    IN  IF seq = <<>>
        THEN [action_type |-> "FUNDRAISER", targets |-> <<>>,
              fallback |-> FALSE]
        ELSE IF SumWeights(weights, seq, Len(seq)) = 0
        THEN [action_type |-> "FUNDRAISER", targets |-> <<>>,
              fallback |-> FALSE]
        ELSE IF hits = {}
        THEN [action_type |-> "FUNDRAISER", targets |-> <<>>,
              fallback |-> TRUE]
        ELSE LET i == CHOOSE j \in hits : \A k \in hits : j <= k
             IN  [action_type |-> seq[i],
                  targets |-> ai_select_target_states(g, seq[i]),
                  fallback |-> FALSE]

-----------------------------------------------------------------------------
(* engine/game_engine.py: the entry points, as functions of the game state *)
(* the engine holds.  Every observer hook is taken to be registered; a     *)
(* firing is recorded with the state the hook receives.                    *)

NoEvent == [none |-> TRUE]

Hook(name, g) == [hook |-> name, state |-> g]

ActionHook(g, res, is_incumbent) ==
    [hook |-> "action", state |-> g, result |-> res,
     is_incumbent |-> is_incumbent]

\* start_turn checking only that a game exists
start_turn_raises_without_game(g) == g = NoGame

\* the two checks of start_turn: no game, or the game is over
start_turn_raises(g) == IF g = NoGame THEN TRUE ELSE g.game_over

\* the check of execute_player_action, execute_ai_action, end_turn, end_game
no_game_raises(g) == g = NoGame

\* start_turn firing the turn-start hook after the event was applied
start_turn_hook_after_event(g, event, up) ==
    IF event = NoEvent
    THEN [state |-> g, fired |-> <<Hook("turn_start", g)>>]
    ELSE LET g2 == apply_event(g, event, up)
         IN  [state |-> g2,
              fired |-> <<Hook("turn_start", g2), Hook("event", g2)>>]

\* start_turn past its two checks; event is what maybe_generate_event returned
start_turn(g, event, up) ==
    IF event = NoEvent
    THEN [state |-> g, fired |-> <<Hook("turn_start", g)>>]
    ELSE LET g2 == apply_event(g, event, up)
         IN  [state |-> g2,
              fired |-> <<Hook("turn_start", g), Hook("event", g2)>>]

\* end_game past its check
end_game(g, flips, up) ==
    LET res == calculate_final_result(g, flips, up)
        g2 == end_game_state(g, res.winner)
    IN  [state |-> g2, election |-> res, fired |-> <<Hook("game_end", g2)>>]

\* end_turn finalizing only after max_turns is passed
end_turn_past_max_turns(g, flips, up) ==
    IF g.current_turn > g.max_turns
    THEN LET e == end_game(g, flips, up)
         IN  [state |-> e.state, election |-> e.election,
              fired |-> <<Hook("turn_end", g)>> \o e.fired]
    ELSE [state |-> advance_turn(g), election |-> NoElection,
          fired |-> <<Hook("turn_end", g)>>]

\* end_turn past its check; election is NoElection when the turn advances
end_turn(g, flips, up) ==
    IF g.current_turn >= g.max_turns
    THEN LET e == end_game(g, flips, up)
         IN  [state |-> e.state, election |-> e.election,
              fired |-> <<Hook("turn_end", g)>> \o e.fired]
    ELSE [state |-> advance_turn(g), election |-> NoElection,
          fired |-> <<Hook("turn_end", g)>>]

-----------------------------------------------------------------------------
(* The inputs explored.                                                    *)

\* what a caller of the engine may pass as target_states: nothing, one
\* state, and a list with an unknown and a repeated abbreviation
TargetInputs == {<<>>, <<"FL">>, <<"TX", "ZZ", "TX", "CA">>}

FundraiserDraws == FUNDRAISER_MIN..FUNDRAISER_MAX

\* the inputs of one execute call that the action reads: the draw of the
\* fundraiser, the targets of a targeted action
ActionInputs ==
    {[action_type |-> "FUNDRAISER", target_states |-> <<>>,
      funds_raised |-> d] : d \in FundraiserDraws}
    \cup
    {[action_type |-> t, target_states |-> ts,
      funds_raised |-> FUNDRAISER_MIN] :
        t \in {"RALLY", "AD_CAMPAIGN", "GRASSROOTS"}, ts \in TargetInputs}
    \cup
    {[action_type |-> t, target_states |-> <<>>,
      funds_raised |-> FUNDRAISER_MIN] :
        t \in {"DEBATE_PREP", "OPPOSITION_RESEARCH", "MEDIA_BLITZ"}}

\* events the generator can produce: for every type the two corners of its
\* ranges, a national one for the incumbent and a state-specific one for
\* the challenger
EventDraws(g) ==
    {generate_event(g, t, TRUE, EVENT_EFFECTS[t].support[1],
                    EVENT_EFFECTS[t].momentum[1], <<>>) : t \in EventTypes}
    \cup
    {generate_event(g, t, FALSE, EVENT_EFFECTS[t].support[2],
                    EVENT_EFFECTS[t].momentum[2], <<"FL", "TX">>)
        : t \in EventTypes}

\* how the last call went: the entry point, whether it raised, and for an
\* execute call the acting player and the inputs
Returned(op) == [op |-> op, raised |-> FALSE]
Raised(op) == [op |-> op, raised |-> TRUE]
Executed(op, is_incumbent, input) ==
    [op |-> op, raised |-> FALSE, is_incumbent |-> is_incumbent,
     action_type |-> input.action_type, target_states |-> input.target_states]

-----------------------------------------------------------------------------
(* Spec: the engine's interface, called in any order by any caller.        *)

Init ==
    /\ gs = NoGame
    /\ call = Returned("init")
    /\ result = NoResult
    /\ election = NoElection
    /\ fired = <<>>
    /\ calls = 0
    /\ pc = "engine"
    /\ gsB = NoGame
    /\ electionB = NoElection

\* GameEngine.is_game_over
is_game_over(g) == IF g = NoGame THEN FALSE ELSE g.game_over

Aside == UNCHANGED <<pc, gsB, electionB>>

Counted == calls < MaxCalls /\ calls' = calls + 1

\* GameEngine.new_game
NewGame ==
    /\ Counted
    /\ gs' = NewGameState
    /\ call' = Returned("new_game")
    /\ fired' = <<>>
    /\ result' = NoResult
    /\ election' = NoElection
    /\ Aside

\* GameEngine.start_turn raising RuntimeError
StartTurnRaises ==
    /\ Counted
    /\ start_turn_raises(gs)
    /\ call' = Raised("start_turn")
    /\ fired' = <<>>
    /\ UNCHANGED <<gs, result, election>>
    /\ Aside

\* GameEngine.start_turn
StartTurn ==
    /\ Counted
    /\ ~start_turn_raises(gs)
    /\ \E event \in {NoEvent} \cup EventDraws(gs), up \in BOOLEAN :
          \E r \in {start_turn(gs, event, up)} :
              /\ gs' = r.state
              /\ fired' = r.fired
    /\ call' = Returned("start_turn")
    /\ UNCHANGED <<result, election>>
    /\ Aside

\* execute_player_action / execute_ai_action raising RuntimeError
ExecuteRaises ==
    /\ Counted
    /\ no_game_raises(gs)
    /\ \E op \in {"execute_player_action", "execute_ai_action"} :
          call' = Raised(op)
    /\ fired' = <<>>
    /\ UNCHANGED <<gs, result, election>>
    /\ Aside

\* the common body of execute_player_action and execute_ai_action
Execute(op, is_incumbent) ==
    /\ Counted
    /\ ~no_game_raises(gs)
    /\ \E input \in ActionInputs, up \in BOOLEAN :
          \E r \in {execute_action(gs, input.action_type, is_incumbent,
                                  input.target_states, input.funds_raised, up)} :
              /\ gs' = r.state
              /\ result' = r.result
              /\ fired' = <<ActionHook(r.state, r.result, is_incumbent)>>
              /\ call' = Executed(op, is_incumbent, input)
    /\ UNCHANGED election
    /\ Aside

\* GameEngine.execute_player_action
ExecutePlayerAction == Execute("execute_player_action", TRUE)

\* GameEngine.execute_ai_action
ExecuteAIAction == Execute("execute_ai_action", FALSE)

\* end_turn / end_game raising RuntimeError
EndRaises ==
    /\ Counted
    /\ no_game_raises(gs)
    /\ \E op \in {"end_turn", "end_game"} : call' = Raised(op)
    /\ fired' = <<>>
    /\ UNCHANGED <<gs, result, election>>
    /\ Aside

\* GameEngine.end_turn
EndTurn ==
    /\ Counted
    /\ ~no_game_raises(gs)
    /\ \E flips \in CoinFlips(gs), up \in BOOLEAN :
          \E r \in {end_turn(gs, flips, up)} :
              /\ gs' = r.state
              /\ fired' = r.fired
              /\ election' = IF r.election = NoElection THEN election
                             ELSE r.election
    /\ call' = Returned("end_turn")
    /\ UNCHANGED result
    /\ Aside

\* GameEngine.end_game
EndGame ==
    /\ Counted
    /\ ~no_game_raises(gs)
    /\ \E flips \in CoinFlips(gs), up \in BOOLEAN :
          \E r \in {end_game(gs, flips, up)} :
              /\ gs' = r.state
              /\ fired' = r.fired
              /\ election' = r.election
    /\ call' = Returned("end_game")
    /\ UNCHANGED result
    /\ Aside

Next ==
    \/ NewGame
    \/ StartTurnRaises
    \/ StartTurn
    \/ ExecuteRaises
    \/ ExecutePlayerAction
    \/ ExecuteAIAction
    \/ EndRaises
    \/ EndTurn
    \/ EndGame

Spec == Init /\ [][Next]_vars

-----------------------------------------------------------------------------
(* SpecAction: ActionProcessor.execute_action and EventGenerator.apply_event *)
(* as functions of a game state, applied once to a drawn game state.  The    *)
(* drawn states are states of a running game: a targeted action whose        *)
(* targets are all unknown moves only the actor's funds and momentum, and a  *)
(* state-specific event moves one player's support in the listed state only, *)
(* so funds, momentum and Florida's supports come to the drawn values while  *)
(* the rest of the board stays as it was dealt.                              *)

FundsDraws == {0, 1, 2, 3, 15}

MomentumDraws == {-100, -98, 0, 10, 97}

PlayerDraws == {[funds |-> f, momentum |-> m] :
                  f \in FundsDraws, m \in MomentumDraws}

\* the other player of a drawn state
BystanderDraws == {NewPlayer, [funds |-> 0, momentum |-> MIN_MOMENTUM]}

\* <<incumbent_support, challenger_support>> of Florida, in tenths; 61.3 and
\* 38.8 are what the two roundings leave of 59.2 and 40.3 after a rally at
\* momentum 100
SupportDraws == {<<480, 480>>, <<520, 480>>, <<995, 5>>, <<5, 20>>, <<0, 1000>>,
                 <<613, 388>>}

DrawnState(actor, bystander, actor_is_incumbent, fl) ==
    [NewGameState EXCEPT
        !.incumbent = IF actor_is_incumbent THEN actor ELSE bystander,
        !.challenger = IF actor_is_incumbent THEN bystander ELSE actor,
        !.states["FL"] = [@ EXCEPT !.incumbent_support = fl[1],
                                   !.challenger_support = fl[2],
                                   !.lean = calculate_lean(fl[1] - fl[2], 10)]]

InitAction ==
    /\ \E actor \in PlayerDraws, bystander \in BystanderDraws,
          actor_is_incumbent \in BOOLEAN, fl \in SupportDraws :
          gs = DrawnState(actor, bystander, actor_is_incumbent, fl)
    /\ call = Returned("init")
    /\ result = NoResult
    /\ election = NoElection
    /\ fired = <<>>
    /\ calls = 0
    /\ pc = "processor"
    /\ gsB = NoGame
    /\ electionB = NoElection

\* ActionProcessor.execute_action
ProcessorExecute ==
    /\ calls = 0
    /\ calls' = 1
    /\ \E is_incumbent \in BOOLEAN, input \in ActionInputs, up \in BOOLEAN :
          \E r \in {execute_action(gs, input.action_type, is_incumbent,
                                  input.target_states, input.funds_raised, up)} :
              /\ gs' = r.state
              /\ result' = r.result
              /\ call' = Executed("execute_action", is_incumbent, input)
    /\ UNCHANGED <<election, fired>>
    /\ Aside

\* EventGenerator.apply_event
GeneratorApply ==
    /\ calls = 0
    /\ calls' = 1
    /\ \E event \in EventDraws(gs), up \in BOOLEAN :
          gs' = apply_event(gs, event, up)
    /\ call' = Returned("apply_event")
    /\ UNCHANGED <<result, election, fired>>
    /\ Aside

NextAction == ProcessorExecute \/ GeneratorApply

SpecAction == InitAction /\ [][NextAction]_vars

-----------------------------------------------------------------------------
(* SpecDriven: CampaignManager.run and _run_turn of main.py driving the    *)
(* engine; pc is the place in the loop.                                    *)

\* the inputs of a turn are explored in the last FreeTurns turns
Free(g) == g.current_turn > g.max_turns - FreeTurns

\* what ActionsView.prompt_target_states returns: n distinct known states
PromptTargets(n) == Take(<<"FL", "OH", "CA">>, n)

\* what the prompts of the player's action phase can return for the player:
\* an action the player can afford, with its targets
PromptInputs(g) ==
    {[action_type |-> i.action_type,
      target_states |->
          PromptTargets(get_action_definition(i.action_type).target_states),
      funds_raised |-> i.funds_raised] :
        i \in {j \in ActionInputs :
                 /\ j.funds_raised = FUNDRAISER_MIN
                 /\ can_afford(g.incumbent,
                               get_action_definition(j.action_type).cost)}}

QuietInput == [action_type |-> "FUNDRAISER", target_states |-> <<>>,
               funds_raised |-> FUNDRAISER_MIN]

\* rolls of choose_action, spread over the total weight
RollDraws(g) == {r \in 0..(TotalWeight(g) - 1) : r % 50 = 1}

\* events of the run loop: a scandal or a viral moment, as EventDraws has them
DrivenEvents(g) == {e \in EventDraws(g) : e.event_type \in {"SCANDAL", "VIRAL"}}

InitDriven ==
    /\ gs = NoGame
    /\ call = Returned("init")
    /\ result = NoResult
    /\ election = NoElection
    /\ fired = <<>>
    /\ calls = 0
    /\ pc = "setup"
    /\ gsB = NoGame
    /\ electionB = NoElection

Kept == UNCHANGED <<calls, gsB, electionB>>

\* run: the setup screen declines
DrvLeave ==
    /\ pc = "setup"
    /\ pc' = "exit"
    /\ UNCHANGED <<gs, call, result, election, fired>>
    /\ Kept

\* run: engine.new_game
DrvNewGame ==
    /\ pc = "setup"
    /\ gs' = NewGameState
    /\ call' = Returned("new_game")
    /\ fired' = <<>>
    /\ result' = NoResult
    /\ election' = NoElection
    /\ pc' = "start_turn"
    /\ Kept

\* _run_turn: engine.start_turn (the game is running whenever the loop
\* comes here, so neither check of start_turn fails)
DrvStartTurn ==
    /\ pc = "start_turn"
    /\ ~start_turn_raises(gs)
    /\ \E event \in {NoEvent} \cup (IF Free(gs) THEN DrivenEvents(gs) ELSE {}),
          up \in BOOLEAN :
          \E r \in {start_turn(gs, event, up)} :
              /\ gs' = r.state
              /\ fired' = r.fired
    /\ call' = Returned("start_turn")
    /\ pc' = "player"
    /\ UNCHANGED <<result, election>>
    /\ Kept

\* _run_turn: the player quits at the action prompt
DrvQuit ==
    /\ pc = "player"
    /\ pc' = "results"
    /\ UNCHANGED <<gs, call, result, election, fired>>
    /\ Kept

\* _run_turn: engine.execute_player_action
DrvPlayerAction ==
    /\ pc = "player"
    /\ \E input \in (IF Free(gs) THEN PromptInputs(gs) ELSE {QuietInput}),
          up \in BOOLEAN :
          \E r \in {execute_action(gs, input.action_type, TRUE,
                                  input.target_states, input.funds_raised, up)} :
              /\ gs' = r.state
              /\ result' = r.result
              /\ fired' = <<ActionHook(r.state, r.result, TRUE)>>
              /\ call' = Executed("execute_player_action", TRUE, input)
    /\ pc' = "ai"
    /\ UNCHANGED election
    /\ Kept

\* _run_turn: ai.choose_action, then engine.execute_ai_action
DrvAIAction ==
    /\ pc = "ai"
    /\ \E roll \in (IF Free(gs) THEN RollDraws(gs) ELSE {1}) :
       \E chosen \in {choose_action(gs, roll)} :
       \E funds_raised \in (IF Free(gs) /\ chosen.action_type = "FUNDRAISER"
                            THEN FundraiserDraws ELSE {FUNDRAISER_MIN}),
          up \in BOOLEAN :
       \E r \in {execute_action(gs, chosen.action_type, FALSE, chosen.targets,
                                funds_raised, up)} :
          /\ gs' = r.state
          /\ result' = r.result
          /\ fired' = <<ActionHook(r.state, r.result, FALSE)>>
          /\ call' = Executed("execute_ai_action", FALSE,
                              [action_type |-> chosen.action_type,
                               target_states |-> chosen.targets])
    /\ pc' = "end_turn"
    /\ UNCHANGED election
    /\ Kept

\* _run_turn: engine.end_turn, then engine.is_game_over
DrvEndTurn ==
    /\ pc = "end_turn"
    /\ \E flips \in CoinFlips(gs), up \in BOOLEAN :
          \E r \in {end_turn(gs, flips, up)} :
              /\ gs' = r.state
              /\ fired' = r.fired
              /\ election' = IF r.election = NoElection THEN election
                             ELSE r.election
              /\ pc' = IF is_game_over(r.state) THEN "results" ELSE "continue"
    /\ call' = Returned("end_turn")
    /\ UNCHANGED result
    /\ Kept

\* _run_turn: the player continues
DrvContinue ==
    /\ pc = "continue"
    /\ pc' = "start_turn"
    /\ UNCHANGED <<gs, call, result, election, fired>>
    /\ Kept

\* _run_turn: the player stops after a turn, engine.end_game
DrvStop ==
    /\ pc = "continue"
    /\ \E flips \in CoinFlips(gs), up \in BOOLEAN :
          \E r \in {end_game(gs, flips, up)} :
              /\ gs' = r.state
              /\ fired' = r.fired
              /\ election' = r.election
    /\ call' = Returned("end_game")
    /\ pc' = "results"
    /\ UNCHANGED result
    /\ Kept

\* run: the results are shown and the player plays again or leaves
DrvResults ==
    /\ pc = "results"
    /\ pc' \in {"setup", "exit"}
    /\ UNCHANGED <<gs, call, result, election, fired>>
    /\ Kept

NextDriven ==
    \/ DrvLeave
    \/ DrvNewGame
    \/ DrvStartTurn
    \/ DrvQuit
    \/ DrvPlayerAction
    \/ DrvAIAction
    \/ DrvEndTurn
    \/ DrvContinue
    \/ DrvStop
    \/ DrvResults

SpecDriven == InitDriven /\ [][NextDriven]_vars

\* the places of the run loop
Places == {"setup", "start_turn", "player", "ai", "end_turn", "continue",
           "results", "exit"}

\* the run loop leaves the place it is at
LoopMoves == pc # "exit" /\ pc' \in Places \ {pc}

\* the run loop is sequential code and its prompts are answered: it does not
\* stay at one place for ever
SpecDrivenFair == SpecDriven /\ WF_pc(LoopMoves)

-----------------------------------------------------------------------------
(* SpecPair: two engines constructed with the same seed, gs and gsB, given  *)
(* the same calls.  The generators of the action processor and of the event *)
(* generator are seeded, so both engines draw the same events and the same  *)
(* fundraiser amounts, and the opponent is given the same roll for both.    *)
(* calculate_final_result draws its coin flips from the random module,      *)
(* which the seed of the engine does not reach: the flips are drawn for     *)
(* each engine on its own.                                                  *)

InitPair ==
    /\ gs = NoGame
    /\ gsB = NoGame
    /\ call = Returned("init")
    /\ result = NoResult
    /\ election = NoElection
    /\ electionB = NoElection
    /\ fired = <<>>
    /\ calls = 0
    /\ pc = "pair"

\* GameEngine.new_game on both engines
PairNewGame ==
    /\ Counted
    /\ gs' = NewGameState
    /\ gsB' = NewGameState
    /\ call' = Returned("new_game")
    /\ fired' = <<>>
    /\ result' = NoResult
    /\ election' = NoElection
    /\ electionB' = NoElection
    /\ UNCHANGED pc

\* GameEngine.start_turn on both engines, neither raising
PairStartTurn ==
    /\ Counted
    /\ ~start_turn_raises(gs)
    /\ ~start_turn_raises(gsB)
    /\ \E event \in {NoEvent} \cup DrivenEvents(gs), up \in BOOLEAN :
          \E r \in {start_turn(gs, event, up)},
             rB \in {start_turn(gsB, event, up)} :
              /\ gs' = r.state
              /\ gsB' = rB.state
              /\ fired' = r.fired
    /\ call' = Returned("start_turn")
    /\ UNCHANGED <<result, election, electionB, pc>>

\* GameEngine.execute_player_action on both engines with the same arguments
PairPlayerAction ==
    /\ Counted
    /\ ~no_game_raises(gs)
    /\ ~no_game_raises(gsB)
    /\ \E input \in ActionInputs, up \in BOOLEAN :
          \E r \in {execute_action(gs, input.action_type, TRUE,
                                  input.target_states, input.funds_raised, up)},
             rB \in {execute_action(gsB, input.action_type, TRUE,
                                   input.target_states, input.funds_raised,
                                   up)} :
              /\ gs' = r.state
              /\ gsB' = rB.state
              /\ result' = r.result
              /\ fired' = <<ActionHook(r.state, r.result, TRUE)>>
              /\ call' = Executed("execute_player_action", TRUE, input)
    /\ UNCHANGED <<election, electionB, pc>>

\* AIOpponent.choose_action and GameEngine.execute_ai_action on both engines
PairAIAction ==
    /\ Counted
    /\ ~no_game_raises(gs)
    /\ ~no_game_raises(gsB)
    /\ \E roll \in RollDraws(gs) :
       \E chosen \in {choose_action(gs, roll)},
          chosenB \in {choose_action(gsB, roll)} :
       \E funds_raised \in FundraiserDraws, up \in BOOLEAN :
       \E r \in {execute_action(gs, chosen.action_type, FALSE, chosen.targets,
                                funds_raised, up)},
          rB \in {execute_action(gsB, chosenB.action_type, FALSE,
                                 chosenB.targets, funds_raised, up)} :
          /\ gs' = r.state
          /\ gsB' = rB.state
          /\ result' = r.result
          /\ fired' = <<ActionHook(r.state, r.result, FALSE)>>
          /\ call' = Executed("execute_ai_action", FALSE,
                              [action_type |-> chosen.action_type,
                               target_states |-> chosen.targets])
    /\ UNCHANGED <<election, electionB, pc>>

\* GameEngine.end_turn on both engines
PairEndTurn ==
    /\ Counted
    /\ ~no_game_raises(gs)
    /\ ~no_game_raises(gsB)
    /\ \E flips \in CoinFlips(gs), flipsB \in CoinFlips(gsB), up \in BOOLEAN :
          \E r \in {end_turn(gs, flips, up)},
             rB \in {end_turn(gsB, flipsB, up)} :
              /\ gs' = r.state
              /\ gsB' = rB.state
              /\ fired' = r.fired
              /\ election' = IF r.election = NoElection THEN election
                             ELSE r.election
              /\ electionB' = IF rB.election = NoElection THEN electionB
                              ELSE rB.election
    /\ call' = Returned("end_turn")
    /\ UNCHANGED <<result, pc>>

\* GameEngine.end_game on both engines
PairEndGame ==
    /\ Counted
    /\ ~no_game_raises(gs)
    /\ ~no_game_raises(gsB)
    /\ \E flips \in CoinFlips(gs), flipsB \in CoinFlips(gsB), up \in BOOLEAN :
          \E r \in {end_game(gs, flips, up)},
             rB \in {end_game(gsB, flipsB, up)} :
              /\ gs' = r.state
              /\ gsB' = rB.state
              /\ fired' = r.fired
              /\ election' = r.election
              /\ electionB' = rB.election
    /\ call' = Returned("end_game")
    /\ UNCHANGED <<result, pc>>

NextPair ==
    \/ PairNewGame
    \/ PairStartTurn
    \/ PairPlayerAction
    \/ PairAIAction
    \/ PairEndTurn
    \/ PairEndGame

SpecPair == InitPair /\ [][NextPair]_vars

-----------------------------------------------------------------------------
(* SpecWinner: GameEngine.end_game, and with it calculate_final_result, on  *)
(* boards of the shipped states in which some states have changed hands.    *)

\* the states whose lead is drawn; with Florida and Wisconsin tied they let
\* the incumbent finish on 268, 269, 270, and 100 votes ahead or behind
SwingStates == {"CA", "PA", "GA", "MI", "AZ"}

Leads == {"Incumbent", "Challenger", "Tied"}

\* the state with its two supports arranged so that lead holds
WithLead(st, lead) ==
    LET hi == Max2(st.incumbent_support, st.challenger_support)
        lo == Min2(st.incumbent_support, st.challenger_support)
        inc == IF lead = "Incumbent" THEN hi ELSE lo
        chl == IF lead = "Challenger" THEN hi ELSE lo
    IN  [st EXCEPT !.incumbent_support = inc,
                   !.challenger_support = chl,
                   !.lean = calculate_lean(inc - chl, 10)]

DrawnBoard(leads) ==
    [NewGameState EXCEPT
        !.states = [a \in Abbrevs |->
                       IF a \in SwingStates
                       THEN WithLead(INITIAL_STATES_CONFIG[a], leads[a])
                       ELSE INITIAL_STATES_CONFIG[a]]]

InitWinner ==
    /\ \E leads \in [SwingStates -> Leads] : gs = DrawnBoard(leads)
    /\ call = Returned("init")
    /\ result = NoResult
    /\ election = NoElection
    /\ fired = <<>>
    /\ calls = 0
    /\ pc = "calculator"
    /\ gsB = NoGame
    /\ electionB = NoElection

\* GameEngine.end_game on the drawn board
FinalizeBoard ==
    /\ calls = 0
    /\ calls' = 1
    /\ \E flips \in CoinFlips(gs), up \in BOOLEAN :
          \E r \in {end_game(gs, flips, up)} :
              /\ gs' = r.state
              /\ fired' = r.fired
              /\ election' = r.election
    /\ call' = Returned("end_game")
    /\ UNCHANGED result
    /\ Aside

NextWinner == FinalizeBoard

SpecWinner == InitWinner /\ [][NextWinner]_vars

-----------------------------------------------------------------------------
(* SpecOpening: the run loop of main.py through the first turn of a game,   *)
(* with the inputs of that turn explored, after which the player quits or   *)
(* declines to continue and run asks the engine for the election result.    *)

\* GameEngine.get_election_result; flips are the coin flips of the fresh
\* calculate_final_result it makes
get_election_result(g, flips, up) ==
    IF g = NoGame THEN NoElection
    ELSE IF ~g.game_over THEN NoElection
    ELSE calculate_final_result(g, flips, up)

\* a call that returned a value
ReturnedValue(op, value) == [op |-> op, raised |-> FALSE, returned |-> value]

\* events of the first turn: those of DrivenEvents, a scandal of the
\* incumbent in Pennsylvania and a gaffe of the challenger in Georgia and
\* Arizona
OpeningEvents(g) ==
    DrivenEvents(g)
    \cup {generate_event(g, "SCANDAL", TRUE, -30, -10, <<"PA">>),
          generate_event(g, "GAFFE", FALSE, -20, -5, <<"GA", "AZ">>)}

\* target lists the prompt can return in the first turn: n distinct states
OpeningTargets(n) ==
    IF n = 0 THEN {<<>>}
    ELSE {Take(ts, n) : ts \in {<<"GA", "AZ", "WI">>, <<"FL", "PA", "MI">>}}

\* _run_turn: engine.start_turn in the first turn
OpenStartTurn ==
    /\ pc = "start_turn"
    /\ ~start_turn_raises(gs)
    /\ \E event \in {NoEvent} \cup OpeningEvents(gs), up \in BOOLEAN :
          \E r \in {start_turn(gs, event, up)} :
              /\ gs' = r.state
              /\ fired' = r.fired
    /\ call' = Returned("start_turn")
    /\ pc' = "player"
    /\ UNCHANGED <<result, election>>
    /\ Kept

\* _run_turn: engine.execute_player_action in the first turn
OpenPlayerAction ==
    /\ pc = "player"
    /\ \E t \in get_affordable_actions(gs.incumbent) :
       \E ts \in OpeningTargets(get_action_definition(t).target_states),
          up \in BOOLEAN :
       \E r \in {execute_action(gs, t, TRUE, ts, FUNDRAISER_MIN, up)} :
          /\ gs' = r.state
          /\ result' = r.result
          /\ fired' = <<ActionHook(r.state, r.result, TRUE)>>
          /\ call' = Executed("execute_player_action", TRUE,
                              [action_type |-> t, target_states |-> ts])
    /\ pc' = "ai"
    /\ UNCHANGED election
    /\ Kept

\* _run_turn: ai.choose_action, then engine.execute_ai_action
OpenAIAction ==
    /\ pc = "ai"
    /\ \E roll \in RollDraws(gs) :
       \E chosen \in {choose_action(gs, roll)} :
       \E funds_raised \in (IF chosen.action_type = "FUNDRAISER"
                            THEN {FUNDRAISER_MIN, FUNDRAISER_MAX}
                            ELSE {FUNDRAISER_MIN}),
          up \in BOOLEAN :
       \E r \in {execute_action(gs, chosen.action_type, FALSE, chosen.targets,
                                funds_raised, up)} :
          /\ gs' = r.state
          /\ result' = r.result
          /\ fired' = <<ActionHook(r.state, r.result, FALSE)>>
          /\ call' = Executed("execute_ai_action", FALSE,
                              [action_type |-> chosen.action_type,
                               target_states |-> chosen.targets])
    /\ pc' = "end_turn"
    /\ UNCHANGED election
    /\ Kept

\* run: engine.get_election_result after the game loop
OpenResults ==
    /\ pc = "results"
    /\ \E flips \in CoinFlips(gs), up \in BOOLEAN :
          call' = ReturnedValue("get_election_result",
                                get_election_result(gs, flips, up))
    /\ pc' = "shown"
    /\ UNCHANGED <<gs, result, election, fired>>
    /\ Kept

NextOpening ==
    \/ DrvNewGame
    \/ OpenStartTurn
    \/ DrvQuit
    \/ OpenPlayerAction
    \/ OpenAIAction
    \/ DrvEndTurn
    \/ DrvStop
    \/ OpenResults

SpecOpening == InitDriven /\ [][NextOpening]_vars

-----------------------------------------------------------------------------------------------------------------------------------------------------
(* Fundraisers in a row: one player of a new game holds fundraiser after   *)
(* fundraiser through the engine, or the processor executes one fundraiser *)
(* on a drawn game state                                                   *)

FundraiserInput(d) ==
    [action_type |-> "FUNDRAISER", target_states |-> <<>>, funds_raised |-> d]

InitFundraising ==
    /\ \/ gs = NoGame /\ pc = "setup"
       \/ /\ \E actor \in PlayerDraws, bystander \in BystanderDraws,
                actor_is_incumbent \in BOOLEAN, fl \in SupportDraws :
                gs = DrawnState(actor, bystander, actor_is_incumbent, fl)
          /\ pc = "processor"
    /\ call = Returned("init")
    /\ result = NoResult
    /\ election = NoElection
    /\ fired = <<>>
    /\ calls = 0
    /\ gsB = NoGame
    /\ electionB = NoElection

\* GameEngine.new_game
FundNewGame ==
    /\ pc = "setup"
    /\ gs' = NewGameState
    /\ call' = Returned("new_game")
    /\ pc' = "fundraising"
    /\ UNCHANGED <<result, election, fired>>
    /\ Kept

\* GameEngine.execute_player_action(FUNDRAISER) or
\* GameEngine.execute_ai_action(FUNDRAISER), by the player of the call before
FundEngineFundraiser ==
    /\ pc = "fundraising"
    /\ calls < MaxFundraisers
    /\ calls' = calls + 1
    /\ \E is_incumbent \in BOOLEAN, d \in FundraiserDraws, up \in BOOLEAN :
          /\ calls > 0 => is_incumbent = call.is_incumbent
          /\ \E r \in {execute_action(gs, "FUNDRAISER", is_incumbent, <<>>,
                                      d, up)} :
                /\ gs' = r.state
                /\ result' = r.result
                /\ call' = Executed(IF is_incumbent
                                    THEN "execute_player_action"
                                    ELSE "execute_ai_action",
                                    is_incumbent, FundraiserInput(d))
    /\ UNCHANGED <<election, fired, pc, gsB, electionB>>

\* ActionProcessor.execute_action(FUNDRAISER) on a drawn game state
FundProcessorFundraiser ==
    /\ pc = "processor"
    /\ calls = 0
    /\ calls' = 1
    /\ \E is_incumbent \in BOOLEAN, d \in FundraiserDraws, up \in BOOLEAN :
          \E r \in {execute_action(gs, "FUNDRAISER", is_incumbent, <<>>,
                                   d, up)} :
              /\ gs' = r.state
              /\ result' = r.result
              /\ call' = Executed("execute_action", is_incumbent,
                                  FundraiserInput(d))
    /\ UNCHANGED <<election, fired, pc, gsB, electionB>>

NextFundraising ==
    \/ FundNewGame
    \/ FundEngineFundraiser
    \/ FundProcessorFundraiser

SpecFundraising == InitFundraising /\ [][NextFundraising]_vars

-----------------------------------------------------------------------------
(* The event log over several turns: the engine's entry points in any      *)
(* order, with a scandal or a viral moment as the events and the           *)
(* fundraiser as the action.                                               *)

LogCounted == calls < MaxLogCalls /\ calls' = calls + 1

\* GameEngine.new_game
LogNewGame ==
    /\ LogCounted
    /\ gs' = NewGameState
    /\ call' = Returned("new_game")
    /\ fired' = <<>>
    /\ result' = NoResult
    /\ election' = NoElection
    /\ Aside

\* GameEngine.start_turn
LogStartTurn ==
    /\ LogCounted
    /\ IF start_turn_raises(gs)
       THEN /\ call' = Raised("start_turn")
            /\ fired' = <<>>
            /\ UNCHANGED gs
       ELSE /\ \E event \in {NoEvent} \cup DrivenEvents(gs), up \in BOOLEAN :
                  \E r \in {start_turn(gs, event, up)} :
                      /\ gs' = r.state
                      /\ fired' = r.fired
            /\ call' = Returned("start_turn")
    /\ UNCHANGED <<result, election>>
    /\ Aside

\* GameEngine.execute_player_action and GameEngine.execute_ai_action
LogExecute ==
    /\ LogCounted
    /\ \E is_incumbent \in BOOLEAN :
          LET op == IF is_incumbent THEN "execute_player_action"
                    ELSE "execute_ai_action"
          IN  IF no_game_raises(gs)
              THEN /\ call' = Raised(op)
                   /\ fired' = <<>>
                   /\ UNCHANGED <<gs, result>>
              ELSE \E r \in {execute_action(gs, QuietInput.action_type,
                                           is_incumbent,
                                           QuietInput.target_states,
                                           QuietInput.funds_raised, TRUE)} :
                      /\ gs' = r.state
                      /\ result' = r.result
                      /\ fired' = <<ActionHook(r.state, r.result,
                                               is_incumbent)>>
                      /\ call' = Executed(op, is_incumbent, QuietInput)
    /\ UNCHANGED election
    /\ Aside

\* GameEngine.end_turn
LogEndTurn ==
    /\ LogCounted
    /\ IF no_game_raises(gs)
       THEN /\ call' = Raised("end_turn")
            /\ fired' = <<>>
            /\ UNCHANGED <<gs, election>>
       ELSE /\ \E flips \in CoinFlips(gs), up \in BOOLEAN :
                  \E r \in {end_turn(gs, flips, up)} :
                      /\ gs' = r.state
                      /\ fired' = r.fired
                      /\ election' = IF r.election = NoElection THEN election
                                     ELSE r.election
            /\ call' = Returned("end_turn")
    /\ UNCHANGED result
    /\ Aside

\* GameEngine.end_game
LogEndGame ==
    /\ LogCounted
    /\ IF no_game_raises(gs)
       THEN /\ call' = Raised("end_game")
            /\ fired' = <<>>
            /\ UNCHANGED <<gs, election>>
       ELSE /\ \E flips \in CoinFlips(gs), up \in BOOLEAN :
                  \E r \in {end_game(gs, flips, up)} :
                      /\ gs' = r.state
                      /\ fired' = r.fired
                      /\ election' = r.election
            /\ call' = Returned("end_game")
    /\ UNCHANGED result
    /\ Aside

NextLog ==
    \/ LogNewGame
    \/ LogStartTurn
    \/ LogExecute
    \/ LogEndTurn
    \/ LogEndGame

SpecLog == Init /\ [][NextLog]_vars

-----------------------------------------------------------------------------
(* The hooks: the engine's entry points in any order on an engine that      *)
(* holds no game, a new game, or a game brought to turn 20 by end_turn and  *)
(* the incumbent to no funds by fifteen rounds of Debate Prep.             *)

HookPlayerDraws == {NewPlayer, [funds |-> 0, momentum |-> MAX_MOMENTUM]}

\* the calls that made a drawn game count as one of the MaxCalls
InitHooks ==
    /\ \/ gs = NoGame /\ calls = 0
       \/ /\ \E turn \in {1, NewGameState.max_turns},
                incumbent \in HookPlayerDraws :
                gs = [NewGameState EXCEPT !.current_turn = turn,
                                          !.incumbent = incumbent]
          /\ calls = 1
    /\ call = Returned("init")
    /\ result = NoResult
    /\ election = NoElection
    /\ fired = <<>>
    /\ pc = "engine"
    /\ gsB = NoGame
    /\ electionB = NoElection

SpecHooks == InitHooks /\ [][Next]_vars

-----------------------------------------------------------------------------
(* The opponent's turn of _run_turn on drawn boards: AIOpponent.choose_action *)
(* with every roll, then GameEngine.execute_ai_action with what it chose;   *)
(* AIOpponent.determine_strategy is also asked on its own.                  *)

\* roll = random() * total_weight lies in [0, total_weight); against sums of
\* hundredths a roll compares as the next whole hundredth does
AIRolls(g) == 0..TotalWeight(g)

InitAI ==
    /\ \E leads \in [SwingStates -> Leads], funds \in FundsDraws :
          gs = [DrawnBoard(leads) EXCEPT !.challenger.funds = funds]
    /\ call = Returned("init")
    /\ result = NoResult
    /\ election = NoElection
    /\ fired = <<>>
    /\ calls = 0
    /\ pc = "ai"
    /\ gsB = NoGame
    /\ electionB = NoElection

\* AIOpponent.determine_strategy
AIDetermineStrategy ==
    /\ pc = "ai"
    /\ call' = ReturnedValue("determine_strategy", determine_strategy(gs))
    /\ pc' = "asked"
    /\ UNCHANGED <<gs, result, election, fired>>
    /\ Kept

\* _run_turn: self.ai.choose_action(game_state)
AIChooseAction ==
    /\ pc = "ai"
    /\ \E roll \in AIRolls(gs) :
       \E chosen \in {choose_action(gs, roll)} :
          call' = [op |-> "choose_action", raised |-> FALSE, roll |-> roll,
                   action_type |-> chosen.action_type,
                   target_states |-> chosen.targets,
                   fallback |-> chosen.fallback]
    /\ pc' = "execute"
    /\ UNCHANGED <<gs, result, election, fired>>
    /\ Kept

\* _run_turn: self.engine.execute_ai_action(ai_action, ai_targets)
AIExecuteChosen ==
    /\ pc = "execute"
    /\ \E up \in BOOLEAN :
       \E r \in {execute_action(gs, call.action_type, FALSE,
                                call.target_states, FUNDRAISER_MIN, up)} :
          /\ gs' = r.state
          /\ result' = r.result
          /\ fired' = <<ActionHook(r.state, r.result, FALSE)>>
    /\ call' = Executed("execute_ai_action", FALSE,
                        [action_type |-> call.action_type,
                         target_states |-> call.target_states])
    /\ pc' = "done"
    /\ UNCHANGED election
    /\ Kept

NextAI == AIDetermineStrategy \/ AIChooseAction \/ AIExecuteChosen

SpecAI == InitAI /\ [][NextAI]_vars

-----
(* Properties.                                                             *)

\* C1: in every game state, each state's incumbent support and challenger
\* support lie in [0, 100] and their sum is at most 100 plus one rounding
\* step of 0.1 (SpecAction: any action or event applied to a game state)
SupportsWithinBounds ==
    gs # NoGame =>
        \A a \in DOMAIN gs.states :
            /\ gs.states[a].incumbent_support \in 0..HundredTenths
            /\ gs.states[a].challenger_support \in 0..HundredTenths
            /\ gs.states[a].incumbent_support
                  + gs.states[a].challenger_support <= HundredTenths + 1

\* the incumbent's rally in Florida pushed the total above 100 and the
\* rescaling took support from the challenger
RallyRescaledFlorida ==
    /\ call.op = "execute_action"
    /\ call.action_type = "RALLY"
    /\ call.is_incumbent
    /\ call.target_states = <<"FL">>
    /\ result.success
    /\ gs.states["FL"].incumbent_support > 520
    /\ gs.states["FL"].challenger_support < 480
    /\ gs.states["FL"].incumbent_support
          + gs.states["FL"].challenger_support = HundredTenths

\* C2: at every point of a game the electoral votes of all states sum to
\* 538, the tally's incumbent, challenger and tied votes sum to 538, and no
\* state's electoral_votes nor the set of states has changed (Spec)
ElectoralVotesConserved ==
    gs # NoGame =>
        /\ DOMAIN gs.states = Abbrevs
        /\ \A a \in Abbrevs :
              gs.states[a].electoral_votes
                 = INITIAL_STATES_CONFIG[a].electoral_votes
        /\ total_electoral_votes(gs) = 538
        /\ LET evs == calculate_current_evs(gs)
           IN  evs[1] + evs[2] + evs[3] = 538

\* a game ended after an event moved the country: no state is tied any more
\* and the incumbent's tally is no longer the opening 262
EndedWithMovedTally ==
    IF gs = NoGame THEN FALSE
    ELSE /\ gs.game_over
         /\ Len(gs.events_log) > 0
         /\ calculate_current_evs(gs)[3] = 0
         /\ calculate_current_evs(gs)[1] # 262

\* C3: execute_action by a player whose funds are below the action's cost
\* returns success = false, funds_spent = 0, funds_raised = 0 and no support
\* changes, and the game state it returns is the one it was given
\* (SpecAction)
UnaffordableChangesNothing ==
    [][(/\ call'.op = "execute_action"
        /\ Actor(gs, call'.is_incumbent).funds
              < ACTION_DEFINITIONS[call'.action_type].cost)
       => (/\ gs' = gs
           /\ result'.success = FALSE
           /\ result'.funds_spent = 0
           /\ result'.funds_raised = 0
           /\ result'.support_changes = EmptyMap)]_vars

\* an ad campaign (cost 4) was refused to a player holding 3
AdCampaignRefused ==
    /\ call.op = "execute_action"
    /\ call.action_type = "AD_CAMPAIGN"
    /\ Actor(gs, call.is_incumbent).funds = 3
    /\ result.success = FALSE

\* C4: two engines with the same seed, given the same calls, hold the same
\* game state at every point and produce the same election result (SpecPair)
SeededEnginesAgree == gs = gsB /\ election = electionB

\* C5: start_turn raises exactly when no game has been started or the game
\* is over, and then the game state is unchanged and no hook fires (Spec)
StartTurnPrecondition ==
    [][call'.op = "start_turn" =>
          IF (IF gs = NoGame THEN TRUE ELSE gs.game_over)
          THEN call'.raised /\ gs' = gs /\ fired' = <<>>
          ELSE ~call'.raised]_vars

\* start_turn raised on a game that is over
StartTurnRaisedAfterEnd ==
    IF gs = NoGame THEN FALSE
    ELSE gs.game_over /\ call = Raised("start_turn")

\* C6: start_turn, execute_player_action, execute_ai_action and end_turn
\* called after the game has ended raise and leave the game state unchanged
\* (Spec)
CallsAfterEndRejected ==
    [][(/\ IF gs = NoGame THEN FALSE ELSE gs.game_over
        /\ call'.op \in {"start_turn", "execute_player_action",
                         "execute_ai_action", "end_turn"})
       => (call'.raised /\ gs' = gs)]_vars

\* the entry point that follows op in a turn
NextInTurn(op) ==
    CASE op = "new_game" -> "start_turn"
      [] op = "start_turn" -> "execute_player_action"
      [] op = "execute_player_action" -> "execute_ai_action"
      [] op = "execute_ai_action" -> "end_turn"
      [] op = "end_turn" -> "start_turn"

\* C7: the engine is a strict sequential state machine: an entry point of
\* the turn called out of the order start_turn, execute_player_action,
\* execute_ai_action, end_turn does not take effect (Spec)
OutOfOrderCallIgnored ==
    [][(/\ ~call.raised
        /\ call.op \in {"new_game", "start_turn", "execute_player_action",
                        "execute_ai_action", "end_turn"}
        /\ call'.op \in {"start_turn", "execute_player_action",
                         "execute_ai_action", "end_turn"}
        /\ call'.op # NextInTurn(call.op))
       => gs' = gs]_vars

\* C8: end_turn on a running game adds exactly 1 to current_turn and changes
\* nothing else when current_turn < max_turns; otherwise it sets game_over,
\* sets winner to the winner of the final result and changes nothing else,
\* current_turn included (SpecDriven)
EndTurnAdvancesOrFinalizes ==
    [][(pc = "end_turn" /\ call'.op = "end_turn") =>
          IF gs.current_turn < gs.max_turns
          THEN gs' = [gs EXCEPT !.current_turn = gs.current_turn + 1]
          ELSE /\ gs'.game_over
               /\ gs'.current_turn = gs.current_turn
               /\ gs'.winner = election'.winner
               /\ gs' = [gs EXCEPT !.game_over = TRUE,
                                   !.winner = election'.winner]]_vars

\* end_turn finalized the game in its last turn
EndTurnFinalized ==
    IF gs = NoGame THEN FALSE
    ELSE /\ call.op = "end_turn"
         /\ gs.game_over
         /\ gs.current_turn = gs.max_turns
         /\ gs.winner = election.winner

\* in a game of the run loop current_turn is within 1..20; the game is not
\* over and has no winner before the end_turn of turn 20, unless the player
\* stopped it with end_game; a game that is over has a winner
GameWithinTurns ==
    gs # NoGame =>
        /\ gs.current_turn \in 1..20
        /\ gs.game_over => gs.winner \in {"Incumbent", "Challenger"}
        /\ ~gs.game_over => gs.winner = NoWinner
        /\ (gs.game_over /\ call.op # "end_game")
              => (call.op = "end_turn" /\ gs.current_turn = 20)

\* at every place of the run loop the step of that place can be taken: the
\* engine does not raise, the player can afford an action and the opponent's
\* weights leave it an action to choose
DriverCanMove ==
    /\ pc = "start_turn" => ~start_turn_raises(gs)
    /\ pc = "player" => ~no_game_raises(gs) /\ PromptInputs(gs) # {}
    /\ pc = "ai" => ~no_game_raises(gs) /\ TotalWeight(gs) > 0
    /\ pc \in {"end_turn", "continue"} => ~no_game_raises(gs)

\* C9: a game driven turn by turn from new_game terminates: current_turn
\* stays within 1..20, game_over is false until the 20th end_turn, which
\* sets game_over with a winner in {Incumbent, Challenger}, and every game
\* that is started comes to its results (SpecDrivenFair)
GameTerminates ==
    /\ []GameWithinTurns
    /\ []DriverCanMove
    /\ (pc = "start_turn") ~> (pc = "results")

\* the 20th end_turn ended a game in which the player never stopped
TwentiethEndTurnEnded ==
    /\ pc = "results"
    /\ call.op = "end_turn"
    /\ gs.game_over
    /\ gs.current_turn = 20
    /\ gs.winner \in {"Incumbent", "Challenger"}

\* C10: the winner of the final result is the incumbent with 270 or more
\* electoral votes, otherwise the challenger with 270 or more, otherwise
\* whoever has more, and the incumbent on an exact tie; margin is incumbent
\* minus challenger votes and is_landslide holds exactly when |margin| >= 100
\* (SpecWinner)
WinnerFollowsRule ==
    election # NoElection =>
        LET inc == election.incumbent_evs
            chl == election.challenger_evs
        IN  /\ inc + chl = 538
            /\ inc >= SumEVs(gs.states, IncumbentLeads(gs.states))
            /\ chl >= SumEVs(gs.states, ChallengerLeads(gs.states))
            /\ election.winner =
                  (IF inc >= 270 THEN "Incumbent"
                   ELSE IF chl >= 270 THEN "Challenger"
                   ELSE IF inc > chl THEN "Incumbent"
                   ELSE IF chl > inc THEN "Challenger"
                   ELSE "Incumbent")
            /\ gs.winner = election.winner
            /\ election.margin = inc - chl
            /\ election.is_landslide
                  <=> (inc - chl >= 100 \/ chl - inc >= 100)

\* an exact tie of 269 to 269 went to the incumbent
ExactTieToIncumbent ==
    IF election = NoElection THEN FALSE
    ELSE /\ election.incumbent_evs = 269
         /\ election.challenger_evs = 269
         /\ election.winner = "Incumbent"

\* C11: in every finalization of a game on the shipped board exactly one
\* candidate has at least 270 electoral votes, so neither the fallback below
\* 270 nor the exact tie of 269 to 269 is ever taken (SpecOpening)
OneCandidateReaches270 ==
    election # NoElection =>
        (election.incumbent_evs >= 270) # (election.challenger_evs >= 270)

\* C11, amended: in every finalization the two totals sum to 538, so either
\* exactly one candidate has at least 270 or both have 269 and the exact
\* tie goes to the incumbent; below 270 nobody ever has more votes than the
\* other (SpecOpening)
MajorityOrExactTie ==
    election # NoElection =>
        LET inc == election.incumbent_evs
            chl == election.challenger_evs
        IN  /\ inc + chl = 538
            /\ \/ (inc >= 270) # (chl >= 270)
               \/ inc = 269 /\ chl = 269 /\ election.winner = "Incumbent"

\* the player stopped after a first turn in which Pennsylvania and Georgia
\* changed hands, and the coin flips left both candidates on 269
OpeningTurnEndedTied ==
    IF election = NoElection THEN FALSE
    ELSE /\ call.op = "end_game"
         /\ gs.game_over
         /\ gs.current_turn = 2
         /\ election.incumbent_evs = 269
         /\ election.challenger_evs = 269
         /\ gs.winner = "Incumbent"

\* C12: the final result awards every state, a tied one included, to
\* exactly one side: state_results names Incumbent or Challenger for every
\* state, the strictly higher side where there is one, each total is the sum
\* over the states awarded to that side, and the totals sum to 538
\* (SpecWinner)
EveryStateAwarded ==
    election # NoElection =>
        LET won(side) == {a \in Abbrevs : election.state_results[a] = side}
        IN  /\ DOMAIN election.state_results = Abbrevs
            /\ \A a \in Abbrevs :
                  /\ election.state_results[a] \in {"Incumbent", "Challenger"}
                  /\ gs.states[a].incumbent_support
                        > gs.states[a].challenger_support
                        => election.state_results[a] = "Incumbent"
                  /\ gs.states[a].challenger_support
                        > gs.states[a].incumbent_support
                        => election.state_results[a] = "Challenger"
            /\ election.incumbent_evs = SumEVs(gs.states, won("Incumbent"))
            /\ election.challenger_evs = SumEVs(gs.states, won("Challenger"))
            /\ election.incumbent_evs + election.challenger_evs = 538

\* of two tied states one went to each side: Florida to the challenger,
\* Wisconsin to the incumbent
TiedStatesSplit ==
    IF election = NoElection THEN FALSE
    ELSE /\ gs.states["FL"].incumbent_support
               = gs.states["FL"].challenger_support
         /\ gs.states["WI"].incumbent_support
               = gs.states["WI"].challenger_support
         /\ election.state_results["FL"] = "Challenger"
         /\ election.state_results["WI"] = "Incumbent"

\* C13: after game_over a result returned by get_election_result has the
\* winner stored in the GameState and the electoral votes of the result
\* computed when the game ended, tied states included (SpecOpening)
ReturnedResultAgrees ==
    IF call.op # "get_election_result" THEN TRUE
    ELSE call.returned # NoElection =>
            /\ gs.game_over
            /\ call.returned.winner = gs.winner
            /\ call.returned.incumbent_evs = election.incumbent_evs
            /\ call.returned.challenger_evs = election.challenger_evs

\* C14: new_game, whatever the engine holds when it is called (no game, a
\* game in progress, a finished game), leaves the same game state: turn 1 of
\* 20, both players with funds 15 and momentum 0, the 14 states of the
\* initial configuration with 538 electoral votes, an empty event log,
\* game_over false and no winner (Spec)
NewGameResets ==
    [][call'.op = "new_game" /\ calls' = calls + 1 =>
          /\ gs'.current_turn = 1
          /\ gs'.max_turns = 20
          /\ gs'.incumbent = [funds |-> 15, momentum |-> 0]
          /\ gs'.challenger = [funds |-> 15, momentum |-> 0]
          /\ gs'.states = create_initial_states
          /\ Cardinality(DOMAIN gs'.states) = 14
          /\ SumEVs(gs'.states, DOMAIN gs'.states) = 538
          /\ gs'.events_log = <<>>
          /\ gs'.game_over = FALSE
          /\ gs'.winner = NoWinner]_vars

\* new_game answered as the third call of an engine, after two others
NewGameAsThirdCall ==
    /\ call.op = "new_game"
    /\ calls = 3
    /\ gs.current_turn = 1
    /\ gs.incumbent.funds = 15

\* C15: a Fundraiser succeeds whatever the funds of the actor, raises them
\* by an integer from 3 to 6, spends nothing, lowers the actor's momentum by
\* 5 but not below -100 and changes neither a state nor the other player;
\* after k Fundraisers in a row from a new game the actor's momentum is
\* max(-100, -5k) and the funds are from 15+3k to 15+6k (SpecFundraising)
FundraiserAlwaysRaises ==
    /\ [][calls' = calls + 1 =>
            LET before == Actor(gs, call'.is_incumbent)
                after == Actor(gs', call'.is_incumbent)
            IN  /\ result'.success
                /\ result'.funds_spent = 0
                /\ result'.funds_raised \in 3..6
                /\ after.funds = before.funds + result'.funds_raised
                /\ after.momentum = Max2(-100, before.momentum - 5)
                /\ gs'.states = gs.states
                /\ Actor(gs', ~call'.is_incumbent)
                      = Actor(gs, ~call'.is_incumbent)]_vars
    /\ [](pc = "fundraising" /\ calls > 0 =>
            LET actor == Actor(gs, call.is_incumbent)
            IN  /\ actor.momentum = Max2(-100, -5 * calls)
                /\ calls = 20 => actor.momentum = -100
                /\ actor.funds >= 15 + 3 * calls
                /\ actor.funds <= 15 + 6 * calls)

\* the twenty-first Fundraiser in a row of the incumbent of a new game: the
\* momentum stays at -100
TwentyFirstFundraiser ==
    /\ pc = "fundraising"
    /\ calls = 21
    /\ call.op = "execute_player_action"
    /\ result.success
    /\ gs.incumbent.momentum = -100
    /\ gs.incumbent.funds = 15 + 3 * 20 + 6

\* C16: a successful Opposition Research of a player with momentum m costs
\* the player 3, lowers the opponent's support in each of the 14 states by
\* exactly 2.5 x (1 + m/200) but not below 0, leaves the player's own
\* support and momentum as they were and records the delta for every state
\* (SpecAction)
ResearchLowersByExactDelta ==
    [][/\ call'.op = "execute_action"
         /\ calls' = calls + 1
         /\ call'.action_type = "OPPOSITION_RESEARCH"
         /\ result'.success
       =>
          LET mine == call'.is_incumbent
              m == Actor(gs, mine).momentum
              delta == 25 * (200 + m) * 2
              opp(st) == IF mine THEN st.challenger_support
                         ELSE st.incumbent_support
          IN  \A a \in Abbrevs :
                 opp(gs'.states[a]) * UnitsPerTenth
                    = Max2(0, opp(gs.states[a]) * UnitsPerTenth - delta)]_vars

\* C16, amended: the opponent's new support in each of the 14 states is the
\* old one less 2.5 x (1 + m/200), not below 0, rounded to one decimal
\* (exactly 2.5 less at momentum 0); the player pays 3, keeps momentum and
\* own support, and the unrounded delta is recorded for every state
\* (SpecAction)
ResearchLowersByRoundedDelta ==
    [][/\ call'.op = "execute_action"
         /\ calls' = calls + 1
         /\ call'.action_type = "OPPOSITION_RESEARCH"
         /\ result'.success
       =>
          LET mine == call'.is_incumbent
              m == Actor(gs, mine).momentum
              delta == 25 * (200 + m) * 2
              opp(st) == IF mine THEN st.challenger_support
                         ELSE st.incumbent_support
              own(st) == IF mine THEN st.incumbent_support
                         ELSE st.challenger_support
          IN  /\ Actor(gs', mine).funds = Actor(gs, mine).funds - 3
              /\ Actor(gs', mine).momentum = m
              /\ Actor(gs', ~mine) = Actor(gs, ~mine)
              /\ result'.funds_spent = 3
              /\ Cardinality(DOMAIN gs'.states) = 14
              /\ DOMAIN result'.support_changes = DOMAIN gs'.states
              /\ \A a \in DOMAIN gs'.states :
                    /\ 2 * Abs(opp(gs'.states[a]) * UnitsPerTenth
                               - Max2(0, opp(gs.states[a]) * UnitsPerTenth
                                         - delta))
                          <= UnitsPerTenth
                    /\ opp(gs'.states[a]) >= 0
                    /\ m = 0 => opp(gs'.states[a])
                                   = Max2(0, opp(gs.states[a]) - 25)
                    /\ own(gs'.states[a]) = own(gs.states[a])
                    /\ result'.support_changes[a] = -delta]_vars

\* the incumbent with momentum 10 has researched the challenger: California
\* went from 38.0 less 2.625 to 35.4
ResearchedAtMomentumTen ==
    IF result = NoResult THEN FALSE
    ELSE /\ call.action_type = "OPPOSITION_RESEARCH"
         /\ call.is_incumbent
         /\ result.success
         /\ gs.incumbent.momentum = 10
         /\ gs.states["CA"].challenger_support = 354

\* C17: a successful Rally, Ad Campaign or Grassroots changes support only
\* in its targets: a list given by the caller is cut to the first
\* target_states entries of the action, and every state that is not among
\* them keeps its incumbent_support and its challenger_support (SpecAction)
OnlyTargetsChange ==
    [][/\ call'.op = "execute_action"
         /\ calls' = calls + 1
         /\ call'.action_type \in {"RALLY", "AD_CAMPAIGN", "GRASSROOTS"}
         /\ result'.success
       =>
          LET given == call'.target_states
              n == ACTION_DEFINITIONS[call'.action_type].target_states
              targets == IF given = <<>> THEN result'.affected_states
                         ELSE [i \in 1..Min2(n, Len(given)) |-> given[i]]
              among == {targets[i] : i \in 1..Len(targets)}
          IN  /\ Len(targets) <= n
              /\ result'.affected_states = targets
              /\ DOMAIN result'.support_changes \subseteq among
              /\ \A a \in Abbrevs \ among :
                    /\ gs'.states[a].incumbent_support
                          = gs.states[a].incumbent_support
                    /\ gs'.states[a].challenger_support
                          = gs.states[a].challenger_support]_vars

\* an Ad Campaign of the incumbent called with TX, ZZ, TX, CA: Texas moved,
\* California, the fourth of the list, did not
FourthTargetDropped ==
    IF result = NoResult THEN FALSE
    ELSE /\ call.action_type = "AD_CAMPAIGN"
         /\ call.is_incumbent
         /\ Len(call.target_states) = 4
         /\ result.success
         /\ gs.states["TX"].incumbent_support
               > INITIAL_STATES_CONFIG["TX"].incumbent_support
         /\ gs.states["CA"].incumbent_support
               = INITIAL_STATES_CONFIG["CA"].incumbent_support

\* C18: a successful Debate Prep or Media Blitz takes its cost from the
\* actor's funds, adds its momentum delta to the actor's momentum, and
\* raises the actor's support in every state by exactly
\* base_support_change x momentum_modifier x 0.5, which for Debate Prep is
\* no change (SpecAction)
NationalRaisesByExactEffect ==
    [][/\ call'.op = "execute_action"
         /\ calls' = calls + 1
         /\ call'.action_type \in {"DEBATE_PREP", "MEDIA_BLITZ"}
         /\ result'.success
       =>
          LET mine == call'.is_incumbent
              actor == Actor(gs, mine)
              definition == ACTION_DEFINITIONS[call'.action_type]
              effect == definition.base_support_change * (200 + actor.momentum)
              own(st) == IF mine THEN st.incumbent_support
                         ELSE st.challenger_support
          IN  /\ Actor(gs', mine).funds = actor.funds - definition.cost
              /\ Actor(gs', mine).momentum
                    = actor.momentum + definition.momentum_change
              /\ \A a \in Abbrevs :
                    own(gs'.states[a]) * UnitsPerTenth
                       = own(gs.states[a]) * UnitsPerTenth + effect]_vars

\* C18, amended: the cost is taken, the momentum delta is added up to the
\* limit of 100, and in every state base_support_change x momentum_modifier
\* x 0.5 is added to the actor's support, the sum capped at 100, scaled by
\* 100/total when the two supports would total more than 100, and rounded to
\* one decimal; Debate Prep changes no state whose supports total at most
\* 100 (SpecAction)
NationalRaisesByStoredEffect ==
    [][/\ call'.op = "execute_action"
         /\ calls' = calls + 1
         /\ call'.action_type \in {"DEBATE_PREP", "MEDIA_BLITZ"}
         /\ result'.success
       =>
          LET mine == call'.is_incumbent
              actor == Actor(gs, mine)
              cost == IF call'.action_type = "DEBATE_PREP" THEN 1 ELSE 3
              delta == IF call'.action_type = "DEBATE_PREP" THEN 10 ELSE 8
              base == IF call'.action_type = "DEBATE_PREP" THEN 0 ELSE 15
              effect == base * (200 + actor.momentum)
              own(st) == IF mine THEN st.incumbent_support
                         ELSE st.challenger_support
              other(st) == IF mine THEN st.challenger_support
                           ELSE st.incumbent_support
          IN  /\ Actor(gs', mine).funds = actor.funds - cost
              /\ Actor(gs', mine).momentum = Min2(100, actor.momentum + delta)
              /\ Actor(gs', ~mine) = Actor(gs, ~mine)
              /\ DOMAIN result'.support_changes = Abbrevs
              /\ \A a \in Abbrevs :
                    LET raised == Min2(HundredUnits,
                                       own(gs.states[a]) * UnitsPerTenth
                                          + effect)
                        total == raised + other(gs.states[a]) * UnitsPerTenth
                    IN  /\ result'.support_changes[a] = effect
                        /\ total <= HundredUnits =>
                              2 * Abs(own(gs'.states[a]) * UnitsPerTenth
                                      - raised) <= UnitsPerTenth
                        /\ total > HundredUnits =>
                              2 * Abs(own(gs'.states[a]) * total
                                      - raised * HundredTenths) <= total
                        /\ base = 0 /\ total <= HundredUnits =>
                              /\ own(gs'.states[a]) = own(gs.states[a])
                              /\ other(gs'.states[a]) = other(gs.states[a])
             ]_vars

\* the incumbent's Media Blitz at momentum 0: California went from 58.0 plus
\* 0.75 to 58.8, the funds from 15 to 12, the momentum to 8
BlitzRoundedCalifornia ==
    IF result = NoResult THEN FALSE
    ELSE /\ call.action_type = "MEDIA_BLITZ"
         /\ call.is_incumbent
         /\ result.success
         /\ gs.incumbent = [funds |-> 12, momentum |-> 8]
         /\ gs.states["CA"].incumbent_support = 588

\* C19: in every game state both players have funds of at least 0 and a
\* momentum from -100 to 100, and a successful action with a cost lowers the
\* actor's funds by exactly the cost, which the funds covered (SpecAction)
FundsAndMomentumInRange ==
    /\ [](gs # NoGame =>
            \A player \in {gs.incumbent, gs.challenger} :
                /\ player.funds >= 0
                /\ player.momentum >= -100
                /\ player.momentum <= 100)
    /\ [][/\ call'.op = "execute_action"
            /\ calls' = calls + 1
            /\ result'.success
            /\ ACTION_DEFINITIONS[call'.action_type].cost > 0
          =>
             LET cost == ACTION_DEFINITIONS[call'.action_type].cost
                 before == Actor(gs, call'.is_incumbent).funds
             IN  /\ before - cost >= 0
                 /\ Actor(gs', call'.is_incumbent).funds = before - cost
                 /\ result'.funds_spent = cost]_vars

\* the challenger spent its last 3 on Opposition Research at momentum 97
SpentLastFunds ==
    IF result = NoResult THEN FALSE
    ELSE /\ call.action_type = "OPPOSITION_RESEARCH"
         /\ ~call.is_incumbent
         /\ result.success
         /\ gs.challenger = [funds |-> 0, momentum |-> 97]

\* C20: in every game state, from the initial configuration on, the lean of
\* each state is the label the thresholds give for its stored margin
\* incumbent_support - challenger_support: at least 15 Safe Inc, at least 5
\* Lean Inc, above -5 Tossup, above -15 Lean Chl, otherwise Safe Chl (Spec)
LeanFollowsStoredMargin ==
    gs # NoGame =>
        \A a \in DOMAIN gs.states :
            LET margin == gs.states[a].incumbent_support
                             - gs.states[a].challenger_support
            IN  gs.states[a].lean =
                    IF margin >= 150 THEN "Safe Inc"
                    ELSE IF margin >= 50 THEN "Lean Inc"
                    ELSE IF margin > -50 THEN "Tossup"
                    ELSE IF margin > -150 THEN "Lean Chl"
                    ELSE "Safe Chl"

\* C21: a successful Rally of a player with momentum 0 in one state costs 2,
\* adds 5 momentum, and, when the player's support plus 3.0 plus the
\* opponent's support is at most 100, raises the player's support there by
\* exactly 3.0 and leaves the opponent's as it was; 48.0/48.0 becomes
\* 51.0/48.0 with lean Tossup (SpecAction)
RallyAddsThreePoints ==
    [][/\ call'.op = "execute_action"
         /\ calls' = calls + 1
         /\ call'.action_type = "RALLY"
         /\ result'.success
         /\ Actor(gs, call'.is_incumbent).momentum = 0
         /\ call'.target_states # <<>>
       =>
          LET mine == call'.is_incumbent
              a == call'.target_states[1]
              own(st) == IF mine THEN st.incumbent_support
                         ELSE st.challenger_support
              other(st) == IF mine THEN st.challenger_support
                           ELSE st.incumbent_support
          IN  /\ Actor(gs', mine).funds = Actor(gs, mine).funds - 2
              /\ Actor(gs', mine).momentum = 5
              /\ a \in Abbrevs
                 /\ own(gs.states[a]) + 30 + other(gs.states[a]) <= 1000
                 => /\ own(gs'.states[a]) = own(gs.states[a]) + 30
                    /\ other(gs'.states[a]) = other(gs.states[a])
              /\ a \in Abbrevs
                 /\ mine
                 /\ gs.states[a].incumbent_support = 480
                 /\ gs.states[a].challenger_support = 480
                 => /\ gs'.states[a].incumbent_support = 510
                    /\ gs'.states[a].challenger_support = 480
                    /\ gs'.states[a].lean = "Tossup"]_vars

\* the incumbent with momentum 0 held a Rally in Florida at 48.0/48.0
RalliedInTiedFlorida ==
    IF result = NoResult THEN FALSE
    ELSE /\ call.action_type = "RALLY"
         /\ call.is_incumbent
         /\ call.target_states = <<"FL">>
         /\ result.success
         /\ gs.incumbent = [funds |-> 13, momentum |-> 5]
         /\ gs.states["FL"].incumbent_support = 510
         /\ gs.states["FL"].challenger_support = 480
         /\ gs.states["FL"].lean = "Tossup"

\* C22: applying an event moves the affected player's momentum by
\* momentum_change within [-100, 100], leaves the other player's momentum,
\* both players' funds, current_turn, game_over and winner alone, appends
\* the event to the log, and changes only the affected player's support: by
\* exactly support_change x 0.5 in every state when the event is national,
\* by exactly support_change in the listed states otherwise (SpecAction)
EventChangesOnlyWhatItNames ==
    [][call'.op = "apply_event" /\ calls' = calls + 1 =>
          LET event == gs'.events_log[Len(gs'.events_log)]
              mine == event.affects_incumbent
              national == event.affected_states = <<>>
              listed == {event.affected_states[i] :
                            i \in 1..Len(event.affected_states)}
              change == IF national
                        THEN event.support_change * (UnitsPerTenth \div 2)
                        ELSE event.support_change * UnitsPerTenth
              own(st) == IF mine THEN st.incumbent_support
                         ELSE st.challenger_support
              other(st) == IF mine THEN st.challenger_support
                           ELSE st.incumbent_support
          IN  /\ gs'.events_log = Append(gs.events_log, event)
              /\ Actor(gs', mine).momentum
                    = Max2(-100, Min2(100, Actor(gs, mine).momentum
                                              + event.momentum_change))
              /\ Actor(gs', mine).funds = Actor(gs, mine).funds
              /\ Actor(gs', ~mine) = Actor(gs, ~mine)
              /\ gs'.current_turn = gs.current_turn
              /\ gs'.game_over = gs.game_over
              /\ gs'.winner = gs.winner
              /\ \A a \in Abbrevs :
                    /\ other(gs'.states[a]) = other(gs.states[a])
                    /\ own(gs'.states[a]) * UnitsPerTenth
                          = IF national \/ a \in listed
                            THEN own(gs.states[a]) * UnitsPerTenth + change
                            ELSE own(gs.states[a]) * UnitsPerTenth]_vars

\* C22, amended: as above, except that the support change goes through the
\* State update: the affected player's new support is the old one plus the
\* change, kept within [0, 100] and rounded to one decimal, and where the two
\* supports would total more than 100 both are scaled by 100/total, which
\* lowers the other player's support too; where they do not, the other
\* player's support is as it was (SpecAction)
EventChangesThroughStateUpdate ==
    [][call'.op = "apply_event" /\ calls' = calls + 1 =>
          LET event == gs'.events_log[Len(gs'.events_log)]
              mine == event.affects_incumbent
              national == event.affected_states = <<>>
              listed == {event.affected_states[i] :
                            i \in 1..Len(event.affected_states)}
              change == IF national
                        THEN event.support_change * (UnitsPerTenth \div 2)
                        ELSE event.support_change * UnitsPerTenth
              own(st) == IF mine THEN st.incumbent_support
                         ELSE st.challenger_support
              other(st) == IF mine THEN st.challenger_support
                           ELSE st.incumbent_support
          IN  /\ gs'.events_log = Append(gs.events_log, event)
              /\ Actor(gs', mine).momentum
                    = Max2(-100, Min2(100, Actor(gs, mine).momentum
                                              + event.momentum_change))
              /\ Actor(gs', mine).funds = Actor(gs, mine).funds
              /\ Actor(gs', ~mine) = Actor(gs, ~mine)
              /\ gs'.current_turn = gs.current_turn
              /\ gs'.game_over = gs.game_over
              /\ gs'.winner = gs.winner
              /\ \A a \in Abbrevs :
                    IF national \/ a \in listed
                    THEN LET moved == Max2(0, Min2(HundredUnits,
                                         own(gs.states[a]) * UnitsPerTenth
                                            + change))
                             rest == other(gs.states[a]) * UnitsPerTenth
                             total == moved + rest
                         IN  IF total <= HundredUnits
                             THEN /\ 2 * Abs(own(gs'.states[a]) * UnitsPerTenth
                                             - moved) <= UnitsPerTenth
                                  /\ other(gs'.states[a]) = other(gs.states[a])
                             ELSE /\ 2 * Abs(own(gs'.states[a]) * total
                                             - moved * HundredTenths) <= total
                                  /\ 2 * Abs(other(gs'.states[a]) * total
                                             - rest * HundredTenths) <= total
                    ELSE /\ own(gs'.states[a]) = own(gs.states[a])
                         /\ other(gs'.states[a]) = other(gs.states[a])]_vars

\* a national endorsement of the incumbent applied where Florida stood at
\* 52.0/48.0: the rescaling left 52.4/47.6
EndorsementRescaledFlorida ==
    IF gs = NoGame THEN FALSE
    ELSE /\ call.op = "apply_event"
         /\ Len(gs.events_log) = 1
         /\ gs.events_log[1].event_type = "ENDORSEMENT"
         /\ gs.events_log[1].affects_incumbent
         /\ gs.events_log[1].affected_states = <<>>
         /\ gs.states["FL"].incumbent_support = 524
         /\ gs.states["FL"].challenger_support = 476

\* C23: the event log only grows at its end: a start_turn leaves it as it
\* was or appends one event whose turn_occurred is the current turn, every
\* other call but new_game leaves it as it was, new_game empties it, and
\* turn_occurred never decreases along the log (SpecLog)
EventLogAppendOnly ==
    /\ [][calls' = calls + 1 /\ gs' # NoGame =>
            LET old == IF gs = NoGame THEN <<>> ELSE gs.events_log
                new == gs'.events_log
            IN  IF call'.op = "new_game" THEN new = <<>>
                ELSE IF call'.op = "start_turn"
                THEN \/ new = old
                     \/ /\ ~call'.raised
                        /\ Len(new) = Len(old) + 1
                        /\ SubSeq(new, 1, Len(old)) = old
                        /\ new[Len(new)].turn_occurred = gs.current_turn
                ELSE new = old]_vars
    /\ [](gs # NoGame =>
            \A i, j \in 1..Len(gs.events_log) :
                i < j => gs.events_log[i].turn_occurred
                            <= gs.events_log[j].turn_occurred)

\* an event of turn 1 and an event of turn 2 are in the log
EventsOfTwoTurnsLogged ==
    IF gs = NoGame THEN FALSE
    ELSE /\ call.op = "start_turn"
         /\ gs.current_turn = 2
         /\ Len(gs.events_log) = 2
         /\ gs.events_log[1].turn_occurred = 1
         /\ gs.events_log[2].turn_occurred = 2

\* C24: the hooks fire in order with the state of the moment: in start_turn
\* the turn-start hook gets the state before any event and the event hook,
\* if an event occurred, the state with the event in its log; after every
\* execute call that does not raise, failed or not, the action hook gets the
\* state and the result the call returns; in the end_turn of the last turn
\* the turn-end hook comes before the game-ended hook, which gets a state
\* with game_over true and a winner (SpecHooks)
HooksFireInOrder ==
    [][calls' = calls + 1 /\ ~call'.raised =>
          /\ call'.op = "start_turn" =>
                /\ fired'[1] = Hook("turn_start", gs)
                /\ \/ Len(fired') = 1 /\ gs' = gs
                   \/ /\ Len(fired') = 2
                      /\ fired'[2] = Hook("event", gs')
                      /\ Len(gs'.events_log) = Len(gs.events_log) + 1
          /\ call'.op \in {"execute_player_action", "execute_ai_action"} =>
                /\ Len(fired') = 1
                /\ fired'[1].hook = "action"
                /\ fired'[1].state = gs'
                /\ fired'[1].result = result'
                /\ fired'[1].is_incumbent = (call'.op = "execute_player_action")
          /\ call'.op = "end_turn" =>
                /\ fired'[1] = Hook("turn_end", gs)
                /\ IF gs.current_turn >= gs.max_turns
                   THEN /\ Len(fired') = 2
                        /\ fired'[2] = Hook("game_end", gs')
                        /\ fired'[2].state.game_over
                        /\ fired'[2].state.winner \in {"Incumbent", "Challenger"}
                   ELSE Len(fired') = 1
          /\ call'.op = "end_game" =>
                /\ fired' = <<Hook("game_end", gs')>>
                /\ gs'.game_over
                /\ gs'.winner \in {"Incumbent", "Challenger"}]_vars

\* a failed Ad Campaign of a player without funds was followed by the
\* end_turn of turn 20, which fired the turn-end and the game-ended hook
FailedActionThenLastEndTurn ==
    IF gs = NoGame \/ result = NoResult THEN FALSE
    ELSE /\ call.op = "end_turn"
         /\ ~result.success
         /\ Len(fired) = 2
         /\ fired[1].hook = "turn_end"
         /\ ~fired[1].state.game_over
         /\ fired[2].hook = "game_end"
         /\ fired[2].state.game_over
         /\ gs.current_turn = 20

\* C25: when the run loop has left the turn loop, after a quit at the
\* action prompt or a declined continue as after the last turn, game_over is
\* true, a winner is set, and get_election_result returns a result
\* (SpecOpening)
LeftTurnLoopFinalized ==
    pc \in {"results", "shown"} =>
        /\ gs.game_over
        /\ gs.winner \in {"Incumbent", "Challenger"}
        /\ pc = "shown" => call.returned # NoElection

\* C26: the action choose_action returns costs no more than the challenger
\* has in the state it was chosen for, it is the Fundraiser when the
\* challenger has no funds, and executing it in that state succeeds (SpecAI)
AIChoiceAffordable ==
    /\ pc = "execute" =>
          /\ ACTION_DEFINITIONS[call.action_type].cost <= gs.challenger.funds
          /\ gs.challenger.funds = 0 => call.action_type = "FUNDRAISER"
    /\ pc = "done" =>
          /\ result.success
          /\ result.action_type = call.action_type

\* with funds of exactly 3 the opponent chose the Media Blitz and ran it
AISpentAllOnBlitz ==
    /\ pc = "done"
    /\ call.action_type = "MEDIA_BLITZ"
    /\ result.success
    /\ result.funds_spent = 3
    /\ gs.challenger.funds = 0

\* C27: determine_strategy returns FUNDRAISING when the challenger's funds
\* are below 2, whatever the board; otherwise, with ev_diff the electoral
\* votes of the states the challenger leads less those of the states the
\* incumbent leads, AGGRESSIVE when ev_diff <= -30, DEFENSIVE when
\* ev_diff >= 30 and BALANCED in between (SpecAI)
StrategyFollowsFundsAndPosition ==
    IF call.op # "determine_strategy" THEN TRUE
    ELSE LET chl == SumEVs(gs.states,
                       {a \in Abbrevs : gs.states[a].challenger_support
                                           > gs.states[a].incumbent_support})
             inc == SumEVs(gs.states,
                       {a \in Abbrevs : gs.states[a].incumbent_support
                                           > gs.states[a].challenger_support})
             ev_diff == chl - inc
         IN  call.returned =
                IF gs.challenger.funds < 2 THEN "FUNDRAISING"
                ELSE IF ev_diff <= -30 THEN "AGGRESSIVE"
                ELSE IF ev_diff >= 30 THEN "DEFENSIVE"
                ELSE "BALANCED"

\* with funds 2 and exactly 30 votes behind (239 to 209, Florida, Wisconsin
\* and three more states tied) the strategy is AGGRESSIVE
AggressiveAtThirtyBehind ==
    IF call.op # "determine_strategy" THEN FALSE
    ELSE /\ call.returned = "AGGRESSIVE"
         /\ gs.challenger.funds = 2
         /\ calculate_current_evs(gs) = <<239, 209, 90>>

\* C28: a successful targeted action called without targets acts on exactly
\* target_states states, those with the smallest absolute margin before the
\* action, a state of the same absolute margin coming first when it is
\* earlier in the state configuration; on the opening board that is Florida
\* before Wisconsin (SpecAction)
ProcessorTargetsClosestRaces ==
    [][/\ call'.op = "execute_action"
         /\ calls' = calls + 1
         /\ call'.action_type \in {"RALLY", "AD_CAMPAIGN", "GRASSROOTS"}
         /\ call'.target_states = <<>>
         /\ result'.success
       =>
          LET n == IF call'.action_type = "RALLY" THEN 1
                   ELSE IF call'.action_type = "GRASSROOTS" THEN 2 ELSE 3
              targets == result'.affected_states
              among == {targets[i] : i \in 1..Len(targets)}
              closeness(a) == Abs(gs.states[a].incumbent_support
                                  - gs.states[a].challenger_support)
              place(a) == CHOOSE i \in 1..Len(StateOrder) : StateOrder[i] = a
              before(a, b) == \/ closeness(a) < closeness(b)
                              \/ /\ closeness(a) = closeness(b)
                                 /\ place(a) < place(b)
          IN  /\ Len(targets) = n
              /\ Cardinality(among) = n
              /\ among \subseteq Abbrevs
              /\ DOMAIN result'.support_changes = among
              /\ \A i, j \in 1..n : i < j => before(targets[i], targets[j])
              /\ \A a \in Abbrevs \ among : before(targets[n], a)
              /\ gs.states = create_initial_states =>
                    targets = SubSeq(<<"FL", "WI", "MI">>, 1, n)]_vars

\* an Ad Campaign without targets on the opening board went to Florida,
\* Wisconsin and Michigan, Michigan being listed before Arizona
AdCampaignChoseMichigan ==
    IF result = NoResult THEN FALSE
    ELSE /\ call.action_type = "AD_CAMPAIGN"
         /\ call.target_states = <<>>
         /\ result.success
         /\ result.affected_states = <<"FL", "WI", "MI">>
         /\ gs.states["AZ"] = INITIAL_STATES_CONFIG["AZ"]

\* C29: for Rally, Ad Campaign and Grassroots choose_action returns exactly
\* target_states distinct states of the board, those with the smallest
\* absolute margin, of two with the same absolute margin the one with more
\* electoral votes first; for the four other actions it returns no targets
\* (SpecAI)
AITargetsClosestRaces ==
    pc = "execute" =>
        LET n == IF call.action_type = "RALLY" THEN 1
                 ELSE IF call.action_type = "GRASSROOTS" THEN 2
                 ELSE IF call.action_type = "AD_CAMPAIGN" THEN 3 ELSE 0
            targets == call.target_states
            among == {targets[i] : i \in 1..Len(targets)}
            closeness(a) == Abs(gs.states[a].incumbent_support
                                - gs.states[a].challenger_support)
            notAfter(a, b) == \/ closeness(a) < closeness(b)
                              \/ /\ closeness(a) = closeness(b)
                                 /\ gs.states[a].electoral_votes
                                       >= gs.states[b].electoral_votes
        IN  /\ Len(targets) = n
            /\ Cardinality(among) = n
            /\ among \subseteq DOMAIN gs.states
            /\ \A i, j \in 1..n : i < j => notAfter(targets[i], targets[j])
            /\ \A a \in DOMAIN gs.states \ among :
                  \A i \in 1..n : notAfter(targets[i], a)

\* an Ad Campaign was chosen where California, Florida and Wisconsin were
\* among the tied states: the targets are the three largest of the tied
\* states, California first
AIChoseLargestTiedStates ==
    /\ pc = "execute"
    /\ call.action_type = "AD_CAMPAIGN"
    /\ gs.states["CA"].incumbent_support = gs.states["CA"].challenger_support
    /\ gs.states["PA"].incumbent_support # gs.states["PA"].challenger_support
    /\ call.target_states = <<"CA", "FL", "GA">>

\* C30: for every roll from 0 up to the total weight of the affordable
\* actions, choose_action returns the first action, in the order of the
\* ActionType enum, that the challenger can afford and at which the running
\* sum of the affordable weights reaches the roll; that action has a
\* positive weight, and the return after the loop is not taken (SpecAI)
AISelectsByCumulativeWeight ==
    pc = "execute" =>
        LET weights == get_weights_for_strategy(determine_strategy(gs))
            affordable(t) == ACTION_DEFINITIONS[t].cost <= gs.challenger.funds
            cumulative[i \in 0..Len(ActionTypes)] ==
                IF i = 0 THEN 0
                ELSE cumulative[i - 1]
                        + (IF affordable(ActionTypes[i])
                           THEN weights[ActionTypes[i]] ELSE 0)
            reached == {i \in 1..Len(ActionTypes) :
                           /\ affordable(ActionTypes[i])
                           /\ cumulative[i] >= call.roll}
        IN  /\ call.roll <= cumulative[Len(ActionTypes)]
            /\ reached # {}
            /\ ~call.fallback
            /\ \E i \in reached :
                  /\ \A k \in reached : i <= k
                  /\ call.action_type = ActionTypes[i]
            /\ weights[call.action_type] > 0
            /\ affordable(call.action_type)

\* with 3 of funds under the BALANCED table the Ad Campaign (cost 4) is
\* left out of the sum: a roll of 31, one above the sum 10 + 20 reached at
\* the Rally, gave Grassroots
RollSkippedUnaffordableAdCampaign ==
    /\ pc = "execute"
    /\ determine_strategy(gs) = "BALANCED"
    /\ gs.challenger.funds = 3
    /\ call.roll = 31
    /\ call.action_type = "GRASSROOTS"
    /\ ~call.fallback

-----------------------------------------------------------------------------
(* SpecGenerator: EventGenerator.generate_event with its random draws.      *)

\* round(x, 1) of a draw given in hundredths (at least -10.00), in tenths
round1(hundredths, up) == RoundRatio(hundredths + 1000, 10, up) - 100

\* values of rng.uniform(range), in hundredths: the two ends, the two ties
\* next to them, and two values in between
UniformDraws(range) ==
    {10 * range[1], 10 * range[1] + 5, 10 * range[1] + 14,
     10 * range[2] - 14, 10 * range[2] - 5, 10 * range[2]}

\* rng.randint(a, b)
randint(a, b) == a..b

\* k draws from the population with replacement
sample_with_replacement(population, k) == [1..k -> population]

\* rng.sample(population, k): k distinct members in any order
sample(population, k) ==
    {s \in [1..k -> population] : \A i, j \in 1..k : s[i] = s[j] => i = j}

\* the state lists of a state-specific event: num_states = randint(1, 3),
\* capped at the number of states
SampledStates(g) ==
    UNION {sample(DOMAIN g.states, Min2(num_states, Cardinality(DOMAIN g.states)))
              : num_states \in randint(1, 3)}

\* turns at which the generator is asked for an event
GeneratorTurns == {1, 2}

InitGenerator ==
    /\ \E turn \in GeneratorTurns :
          gs = [NewGameState EXCEPT !.current_turn = turn]
    /\ call = Returned("init")
    /\ result = NoResult
    /\ election = NoElection
    /\ fired = <<>>
    /\ calls = 0
    /\ pc = "generator"
    /\ gsB = NoGame
    /\ electionB = NoElection

\* the support and momentum draws of an event type: every pair for a
\* national event, the two corners of the ranges for a state-specific one
EffectDraws(event_type, specific) ==
    LET effects == EVENT_EFFECTS[event_type]
        all == UniformDraws(effects.support)
                  \X randint(effects.momentum[1], effects.momentum[2])
    IN  IF specific
        THEN {<<10 * effects.support[1] + 5, effects.momentum[1]>>,
              <<10 * effects.support[2], effects.momentum[2]>>}
        ELSE all

\* EventGenerator.generate_event
GeneratorGenerate ==
    /\ calls = 0
    /\ calls' = 1
    /\ \E event_type \in EventTypes, affects_incumbent \in BOOLEAN,
          specific \in BOOLEAN, up \in BOOLEAN :
          \E draw \in EffectDraws(event_type, specific),
             affected_states \in IF specific THEN SampledStates(gs)
                                 ELSE {<<>>} :
              call' = [op |-> "generate_event", raised |-> FALSE,
                       specific |-> specific,
                       returned |->
                           generate_event(gs, event_type, affects_incumbent,
                                          round1(draw[1], up), draw[2],
                                          affected_states)]
    /\ UNCHANGED <<gs, result, election, fired>>
    /\ Aside

NextGenerator == GeneratorGenerate

SpecGenerator == InitGenerator /\ [][NextGenerator]_vars

\* C31: every event generate_event returns has a support change and a
\* momentum change inside the ranges of its type, lists one to three
\* distinct states of the board when it is state-specific and none when it
\* is national, and carries the current turn (SpecGenerator)
GeneratedEventWellFormed ==
    call.op = "generate_event" =>
        LET event == call.returned
            ranges == EVENT_EFFECTS[event.event_type]
            listed == event.affected_states
        IN  /\ event.event_type \in EventTypes
            /\ ranges.support[1] <= event.support_change
            /\ event.support_change <= ranges.support[2]
            /\ ranges.momentum[1] <= event.momentum_change
            /\ event.momentum_change <= ranges.momentum[2]
            /\ event.event_type = "SCANDAL" =>
                  /\ event.support_change \in (-40)..(-20)
                  /\ event.momentum_change \in (-15)..(-5)
            /\ event.event_type = "VIRAL" =>
                  /\ event.support_change \in 10..30
                  /\ event.momentum_change \in 5..20
            /\ call.specific => Len(listed) \in 1..3
            /\ ~call.specific => listed = <<>>
            /\ \A i \in 1..Len(listed) : listed[i] \in DOMAIN gs.states
            /\ \A i, j \in 1..Len(listed) : listed[i] = listed[j] => i = j
            /\ event.turn_occurred = gs.current_turn

\* in turn 2 a scandal drawn at -3.95, rounded to -4.0, hit three states
ScandalInThreeStates ==
    /\ call.op = "generate_event"
    /\ gs.current_turn = 2
    /\ call.returned.event_type = "SCANDAL"
    /\ call.returned.support_change = -40
    /\ call.returned.affected_states = <<"TX", "CA", "FL">>
    /\ call.returned.turn_occurred = 2

-----------------------------------------------------------------------------
(* SpecCalculator: the analysis functions of ElectoralCalculator applied to *)
(* drawn boards, and the finalization of the board they were asked about.   *)

\* the candidate's and the opponent's support in a state
OwnSupport(st, for_incumbent) ==
    IF for_incumbent THEN st.incumbent_support ELSE st.challenger_support

OtherSupport(st, for_incumbent) ==
    IF for_incumbent THEN st.challenger_support ELSE st.incumbent_support

\* margin of get_path_to_victory in tenths; max(margin, 0.1) is FlipMargin
FlipMargin(st, for_incumbent) ==
    Max2(OtherSupport(st, for_incumbent) - OwnSupport(st, for_incumbent), 1)

\* efficiency of a above that of b: electoral_votes / max(margin, 0.1)
MoreEfficient(g, for_incumbent, a, b) ==
    g.states[a].electoral_votes * FlipMargin(g.states[b], for_incumbent)
        > g.states[b].electoral_votes * FlipMargin(g.states[a], for_incumbent)

RECURSIVE SortByEfficiency(_, _, _)
\* remaining.sort(key = efficiency, reverse = True); stable
SortByEfficiency(g, for_incumbent, seq) ==
    IF seq = <<>> THEN <<>>
    ELSE LET best == {i \in 1..Len(seq) :
                         \A j \in 1..Len(seq) :
                             ~MoreEfficient(g, for_incumbent, seq[j], seq[i])}
             first == CHOOSE i \in best : \A k \in best : i <= k
         IN  <<seq[first]>> \o SortByEfficiency(g, for_incumbent,
                                                Without(seq, seq[first]))

RECURSIVE SeqEVs(_, _, _)
\* electoral votes of the first n states of seq
SeqEVs(g, seq, n) ==
    IF n = 0 THEN 0
    ELSE g.states[seq[n]].electoral_votes + SeqEVs(g, seq, n - 1)

\* electoral votes of the states the candidate leads
WonEVs(g, for_incumbent) ==
    SumEVs(g.states,
           {a \in DOMAIN g.states :
               OwnSupport(g.states[a], for_incumbent)
                   > OtherSupport(g.states[a], for_incumbent)})

\* the states the candidate does not lead, ranked
RankedRemaining(g, for_incumbent) ==
    SortByEfficiency(g, for_incumbent,
        SelectSeq(StateOrder,
                  LAMBDA a : OwnSupport(g.states[a], for_incumbent)
                                <= OtherSupport(g.states[a], for_incumbent)))

\* get_path_to_victory without the break out of the loop
get_path_to_victory_whole_ranking(g, for_incumbent) ==
    IF WonEVs(g, for_incumbent) >= VOTES_TO_WIN THEN <<>>
    ELSE RankedRemaining(g, for_incumbent)

\* ElectoralCalculator.get_path_to_victory
get_path_to_victory(g, for_incumbent) ==
    LET current_evs == WonEVs(g, for_incumbent)
        remaining == RankedRemaining(g, for_incumbent)
        enough == {n \in 1..Len(remaining) :
                      VOTES_TO_WIN - current_evs - SeqEVs(g, remaining, n) <= 0}
    IN  IF current_evs >= VOTES_TO_WIN THEN <<>>
        ELSE IF enough = {} THEN remaining
        ELSE Take(remaining, CHOOSE n \in enough : \A k \in enough : n <= k)

\* is_mathematically_eliminated counting a lead of exactly 15 points
is_mathematically_eliminated_at_fifteen(g, for_incumbent) ==
    SumEVs(g.states,
           {a \in DOMAIN g.states :
               OtherSupport(g.states[a], for_incumbent)
                   - OwnSupport(g.states[a], for_incumbent) >= 150})
        >= VOTES_TO_WIN

\* ElectoralCalculator.is_mathematically_eliminated
is_mathematically_eliminated(g, for_incumbent) ==
    SumEVs(g.states,
           {a \in DOMAIN g.states :
               OtherSupport(g.states[a], for_incumbent)
                   - OwnSupport(g.states[a], for_incumbent) > 150})
        >= VOTES_TO_WIN

\* tenths of a point moved in every state from the challenger to the
\* incumbent
ShiftDraws == {-80, -75, 0, 75, 80}

\* the drawn board after the same swing in every state
ShiftedBoard(leads, shift) ==
    LET g == DrawnBoard(leads)
    IN  [g EXCEPT !.states =
            [a \in Abbrevs |->
                [g.states[a] EXCEPT
                    !.incumbent_support = @ + shift,
                    !.challenger_support = @ - shift,
                    !.lean = calculate_lean(Margin(g.states[a]) + 2 * shift,
                                            10)]]]

InitCalculator ==
    /\ \E leads \in [SwingStates -> Leads], shift \in ShiftDraws :
          gs = ShiftedBoard(leads, shift)
    /\ call = Returned("init")
    /\ result = NoResult
    /\ election = NoElection
    /\ fired = <<>>
    /\ calls = 0
    /\ pc = "analysis"
    /\ gsB = NoGame
    /\ electionB = NoElection

\* ElectoralCalculator.get_path_to_victory for either candidate
CalculatorPath ==
    /\ pc = "analysis"
    /\ calls = 0
    /\ calls' = 1
    /\ \E for_incumbent \in BOOLEAN :
          call' = [op |-> "get_path_to_victory", raised |-> FALSE,
                   for_incumbent |-> for_incumbent,
                   returned |-> get_path_to_victory(gs, for_incumbent)]
    /\ pc' = "answered"
    /\ UNCHANGED <<gs, result, election, fired, gsB, electionB>>

\* ElectoralCalculator.is_mathematically_eliminated asked about both
\* candidates on the same board
CalculatorEliminated ==
    /\ pc = "analysis"
    /\ calls = 0
    /\ calls' = 1
    /\ call' = [op |-> "is_mathematically_eliminated", raised |-> FALSE,
                returned |->
                    [Incumbent |-> is_mathematically_eliminated(gs, TRUE),
                     Challenger |-> is_mathematically_eliminated(gs, FALSE)]]
    /\ pc' = "finalize"
    /\ UNCHANGED <<gs, result, election, fired, gsB, electionB>>

\* GameEngine.end_game on the board the calculator was asked about
CalculatorFinalize ==
    /\ pc = "finalize"
    /\ calls' = calls + 1
    /\ \E flips \in CoinFlips(gs), up \in BOOLEAN :
          \E r \in {end_game(gs, flips, up)} :
              /\ gs' = r.state
              /\ fired' = r.fired
              /\ election' = r.election
    /\ pc' = "answered"
    /\ UNCHANGED <<call, result, gsB, electionB>>

NextCalculator == CalculatorPath \/ CalculatorEliminated \/ CalculatorFinalize

SpecCalculator == InitCalculator /\ [][NextCalculator]_vars

\* C32: get_path_to_victory returns the empty list exactly when the states
\* the candidate leads hold 270 electoral votes or more; otherwise it
\* returns a non-empty list of distinct states the candidate does not lead
\* (tied states may be in it), in non-increasing order of electoral_votes /
\* max(margin, 0.1), whose votes added to the candidate's reach 270 while
\* those without the last one do not (SpecCalculator)
PathReaches270 ==
    call.op = "get_path_to_victory" =>
        LET path == call.returned
            for_incumbent == call.for_incumbent
            own(a) == IF for_incumbent THEN gs.states[a].incumbent_support
                      ELSE gs.states[a].challenger_support
            other(a) == IF for_incumbent THEN gs.states[a].challenger_support
                        ELSE gs.states[a].incumbent_support
            flip(a) == IF other(a) - own(a) > 1 THEN other(a) - own(a) ELSE 1
            votes(a) == gs.states[a].electoral_votes
            won == SumEVs(gs.states, {a \in DOMAIN gs.states : own(a) > other(a)})
            listed(n) == SumEVs(gs.states, {path[i] : i \in 1..n})
        IN  /\ (path = <<>>) <=> (won >= 270)
            /\ \A i, j \in 1..Len(path) : path[i] = path[j] => i = j
            /\ \A i \in 1..Len(path) :
                  /\ path[i] \in DOMAIN gs.states
                  /\ own(path[i]) <= other(path[i])
            /\ \A i, j \in 1..Len(path) :
                  i < j => votes(path[i]) * flip(path[j])
                              >= votes(path[j]) * flip(path[i])
            /\ path # <<>> =>
                  /\ won + listed(Len(path)) >= 270
                  /\ won + listed(Len(path) - 1) < 270

\* the incumbent, leading states of 174 votes with 155 votes tied, was told
\* to win the tied California, Florida and Pennsylvania: 277 votes, and 258
\* without Pennsylvania
PathThroughTiedStates ==
    /\ call.op = "get_path_to_victory"
    /\ call.for_incumbent
    /\ calculate_current_evs(gs) = <<174, 209, 155>>
    /\ call.returned = <<"CA", "FL", "PA">>

\* C33: is_mathematically_eliminated is true of a candidate exactly when
\* the states the opponent leads by more than 15 points hold 270 electoral
\* votes or more; the two candidates are never both eliminated on one
\* board, and end_game on a board where a candidate is eliminated makes
\* the opponent the winner (SpecCalculator)
EliminatedWhenOpponentLocked270 ==
    call.op = "is_mathematically_eliminated" =>
        LET incumbent_locked ==
                SumEVs(gs.states,
                       {a \in DOMAIN gs.states :
                           gs.states[a].incumbent_support
                               - gs.states[a].challenger_support > 150})
            challenger_locked ==
                SumEVs(gs.states,
                       {a \in DOMAIN gs.states :
                           gs.states[a].challenger_support
                               - gs.states[a].incumbent_support > 150})
            eliminated == call.returned
        IN  /\ eliminated.Incumbent <=> (challenger_locked >= 270)
            /\ eliminated.Challenger <=> (incumbent_locked >= 270)
            /\ ~(eliminated.Incumbent /\ eliminated.Challenger)
            /\ election # NoElection =>
                  /\ eliminated.Incumbent =>
                        /\ election.winner = "Challenger"
                        /\ gs.winner = "Challenger"
                  /\ eliminated.Challenger =>
                        /\ election.winner = "Incumbent"
                        /\ gs.winner = "Incumbent"

\* after a swing of 8 points to the challenger in every state, Florida
\* among the states the challenger leads by 16, the incumbent was
\* eliminated and the finalized game went to the challenger
IncumbentEliminatedThenLost ==
    /\ call.op = "is_mathematically_eliminated"
    /\ call.returned.Incumbent
    /\ ~call.returned.Challenger
    /\ gs.states["FL"].challenger_support - gs.states["FL"].incumbent_support
          = 160
    /\ gs.game_over
    /\ election # NoElection
    /\ gs.winner = "Challenger"

\* C34: a successful Rally, Ad Campaign, Grassroots or Media Blitz, and an
\* event with a positive support change, leave the support of the other
\* player as it was in every state they touch (SpecAction)
SupportiveChangeKeepsOpponent ==
    [][/\ calls' = calls + 1
         /\ \/ /\ call'.op = "execute_action"
               /\ call'.action_type
                     \in {"RALLY", "AD_CAMPAIGN", "GRASSROOTS", "MEDIA_BLITZ"}
               /\ result'.success
            \/ /\ call'.op = "apply_event"
               /\ gs'.events_log[Len(gs'.events_log)].support_change > 0
       =>
          LET mine == IF call'.op = "execute_action" THEN call'.is_incumbent
                      ELSE gs'.events_log[Len(gs'.events_log)].affects_incumbent
              other(st) == IF mine THEN st.challenger_support
                           ELSE st.incumbent_support
          IN  \A a \in Abbrevs :
                  other(gs'.states[a]) = other(gs.states[a])]_vars

\* C34, amended: a successful Rally, Ad Campaign, Grassroots or Media Blitz,
\* and an event with a positive support change, change the other player's
\* support only where the State update scales: each time the change is
\* applied in a state, if the player's support plus the change, capped at
\* 100, plus the other player's support is at most 100, the other player's
\* support stays as it was, and otherwise both supports are multiplied by
\* 100/total and rounded to one decimal; states not touched keep both
\* supports (SpecAction)
SupportiveChangeScalesOpponent ==
    [][/\ calls' = calls + 1
         /\ \/ /\ call'.op = "execute_action"
               /\ call'.action_type
                     \in {"RALLY", "AD_CAMPAIGN", "GRASSROOTS", "MEDIA_BLITZ"}
               /\ result'.success
            \/ /\ call'.op = "apply_event"
               /\ gs'.events_log[Len(gs'.events_log)].support_change > 0
       =>
          LET action == call'.op = "execute_action"
              event == gs'.events_log[Len(gs'.events_log)]
              mine == IF action THEN call'.is_incumbent
                      ELSE event.affects_incumbent
              national == IF action THEN call'.action_type = "MEDIA_BLITZ"
                          ELSE event.affected_states = <<>>
              \* the change of one application, in units
              change ==
                  IF action
                  THEN ACTION_DEFINITIONS[call'.action_type].base_support_change
                          * (200 + Actor(gs, mine).momentum)
                          * (IF national THEN 1 ELSE 2)
                  ELSE event.support_change
                          * (IF national THEN UnitsPerTenth \div 2
                             ELSE UnitsPerTenth)
              used == IF action THEN result'.affected_states
                      ELSE event.affected_states
              \* how often the change is applied in state a
              times(a) == IF national THEN 1
                          ELSE Cardinality({i \in 1..Len(used) : used[i] = a})
              own(st) == IF mine THEN st.incumbent_support
                         ELSE st.challenger_support
              other(st) == IF mine THEN st.challenger_support
                           ELSE st.incumbent_support
              Nearest(n, d) == {q \in {n \div d, n \div d + 1} :
                                   2 * Abs(q * d - n) <= d}
              Applied(p) ==
                  LET raised == Min2(HundredUnits, p[1] * UnitsPerTenth + change)
                      rest == p[2] * UnitsPerTenth
                      total == raised + rest
                  IN  IF total <= HundredUnits
                      THEN Nearest(raised, UnitsPerTenth) \X {p[2]}
                      ELSE Nearest(raised * HundredTenths, total)
                              \X Nearest(rest * HundredTenths, total)
              After[n \in 0..3] ==
                  [a \in Abbrevs |->
                      IF n = 0
                      THEN {<<own(gs.states[a]), other(gs.states[a])>>}
                      ELSE UNION {Applied(p) : p \in After[n - 1][a]}]
          IN  \A a \in Abbrevs :
                  /\ times(a) <= 3
                  /\ <<own(gs'.states[a]), other(gs'.states[a])>>
                        \in After[times(a)][a]]_vars

\* the incumbent at momentum 10 ran an Ad Campaign with Texas listed twice:
\* 42.0 to 54.0 became 44.1 to 54.0, then 46.2 to 54.0 scaled to 46.1 to
\* 53.9
TexasListedTwiceScaled ==
    IF result = NoResult THEN FALSE
    ELSE /\ call.action_type = "AD_CAMPAIGN"
         /\ call.is_incumbent
         /\ call.target_states = <<"TX", "ZZ", "TX", "CA">>
         /\ result.success
         /\ gs.incumbent.momentum = 13
         /\ gs.states["TX"].incumbent_support = 461
         /\ gs.states["TX"].challenger_support = 539

\* C35: a successful Rally, Ad Campaign or Grassroots applies its effect at
\* most once per state whatever target list the caller gives: no state's
\* support for the actor rises by more than base_support_change x
\* momentum_modifier (rounded to one decimal), and the states of the
\* result's affected_states are those recorded in support_changes
\* (SpecAction)
EffectAtMostOncePerState ==
    [][/\ call'.op = "execute_action"
         /\ calls' = calls + 1
         /\ call'.action_type \in {"RALLY", "AD_CAMPAIGN", "GRASSROOTS"}
         /\ result'.success
       =>
          LET mine == call'.is_incumbent
              effect == ACTION_DEFINITIONS[call'.action_type].base_support_change
                           * (200 + Actor(gs, mine).momentum) * 2
              own(st) == IF mine THEN st.incumbent_support
                         ELSE st.challenger_support
              affected == {result'.affected_states[i] :
                              i \in 1..Len(result'.affected_states)}
          IN  /\ \A a \in Abbrevs :
                    2 * (own(gs'.states[a]) - own(gs.states[a])) * UnitsPerTenth
                       <= 2 * effect + UnitsPerTenth
              /\ affected = DOMAIN result'.support_changes]_vars

-----------------------------------------------------------------------------
(* SpecMomentum: actions of the processor one after another on the state    *)
(* the one before returned, the way the engine chains them.                 *)

\* how many actions follow one another
MaxActions == 2

\* momentum of the incumbent at the start
StartMomentum == {-100, 0, 93, 97}

\* actions with a momentum delta: a Rally in Florida, a Rally in a state
\* that does not exist, an Ad Campaign choosing its targets, and the two
\* national actions
MomentumInputs ==
    {[action_type |-> "RALLY", target_states |-> ts,
      funds_raised |-> FUNDRAISER_MIN] : ts \in {<<"FL">>, <<"ZZ">>}}
    \cup
    {[action_type |-> t, target_states |-> <<>>,
      funds_raised |-> FUNDRAISER_MIN] :
        t \in {"AD_CAMPAIGN", "DEBATE_PREP", "MEDIA_BLITZ"}}

InitMomentum ==
    /\ \E m \in StartMomentum, fl \in {<<480, 480>>, <<520, 480>>} :
          gs = DrawnState([funds |-> 15, momentum |-> m], NewPlayer, TRUE, fl)
    /\ call = Returned("init")
    /\ result = NoResult
    /\ election = NoElection
    /\ fired = <<>>
    /\ calls = 0
    /\ pc = "processor"
    /\ gsB = NoGame
    /\ electionB = NoElection

\* ActionProcessor.execute_action on the state the last call returned
MomentumExecute ==
    /\ calls < MaxActions
    /\ calls' = calls + 1
    /\ \E is_incumbent \in BOOLEAN, input \in MomentumInputs, up \in BOOLEAN :
          \E r \in {execute_action(gs, input.action_type, is_incumbent,
                                  input.target_states, input.funds_raised, up)} :
              /\ gs' = r.state
              /\ result' = r.result
              /\ call' = Executed("execute_action", is_incumbent, input)
    /\ UNCHANGED <<election, fired>>
    /\ Aside

NextMomentum == MomentumExecute

SpecMomentum == InitMomentum /\ [][NextMomentum]_vars

\* C36: the support effect of a successful Rally, Ad Campaign, Debate Prep
\* or Media Blitz is base_support_change times the momentum_modifier of the
\* actor's momentum before the action (halved for a national action), the
\* action's momentum delta not included; the delta is added to the actor's
\* momentum, within [-100, 100], whether or not any support changed, and so
\* scales the actor's next action (SpecMomentum)
EffectUsesMomentumBefore ==
    [][/\ call'.op = "execute_action"
         /\ calls' = calls + 1
         /\ result'.success
       =>
          LET mine == call'.is_incumbent
              before == Actor(gs, mine).momentum
              definition == ACTION_DEFINITIONS[call'.action_type]
              national == definition.target_states = 0
              effect == definition.base_support_change * (200 + before)
                           * (IF national THEN 1 ELSE 2)
              used == result'.affected_states
              own(st) == IF mine THEN st.incumbent_support
                         ELSE st.challenger_support
              other(st) == IF mine THEN st.challenger_support
                           ELSE st.incumbent_support
          IN  /\ \A a \in DOMAIN result'.support_changes :
                    result'.support_changes[a] = effect
              /\ \A a \in Abbrevs :
                    /\ Cardinality({i \in 1..Len(used) : used[i] = a}) = 1
                    /\ own(gs.states[a]) * UnitsPerTenth + effect
                          + other(gs.states[a]) * UnitsPerTenth <= HundredUnits
                    => 2 * Abs(own(gs'.states[a]) * UnitsPerTenth
                               - (own(gs.states[a]) * UnitsPerTenth + effect))
                          <= UnitsPerTenth
              /\ Actor(gs', mine).momentum
                    = Max2(-100, Min2(100, before + definition.momentum_change))
              /\ Actor(gs', ~mine).momentum = Actor(gs, ~mine).momentum]_vars

\* the incumbent's Rally in a state that does not exist changed no support
\* and raised the momentum from 0 to 5; the Rally in Florida that followed
\* had the effect 3.0 x 1.025 = 3.075, Florida going from 48.0 to 51.1, and
\* left the momentum at 10
SecondRallyScaledByFirstDelta ==
    IF result = NoResult THEN FALSE
    ELSE /\ calls = 2
         /\ call.action_type = "RALLY"
         /\ call.is_incumbent
         /\ call.target_states = <<"FL">>
         /\ result.success
         /\ result.support_changes = [a \in {"FL"} |-> 30 * 205 * 2]
         /\ gs.incumbent = [funds |-> 11, momentum |-> 10]
         /\ gs.states["FL"].incumbent_support = 511
         /\ gs.states["FL"].challenger_support = 480
         /\ gs.states["TX"] = NewGameState.states["TX"]

\* C37: an execute_player_action or execute_ai_action that returns, of any
\* action type, leaves the other player's funds and momentum, current_turn,
\* max_turns, the event log, game_over and winner as they were; of the
\* states only the supports (and the lean computed from them) can change
\* (Spec)
ActionFrame ==
    [][/\ calls' = calls + 1
         /\ call'.op \in {"execute_player_action", "execute_ai_action"}
         /\ ~call'.raised
       =>
          LET mine == call'.is_incumbent
          IN  /\ mine = (call'.op = "execute_player_action")
              /\ Actor(gs', ~mine).funds = Actor(gs, ~mine).funds
              /\ Actor(gs', ~mine).momentum = Actor(gs, ~mine).momentum
              /\ gs'.current_turn = gs.current_turn
              /\ gs'.max_turns = gs.max_turns
              /\ gs'.events_log = gs.events_log
              /\ gs'.game_over = gs.game_over
              /\ gs'.winner = gs.winner
              /\ DOMAIN gs'.states = DOMAIN gs.states
              /\ \A a \in DOMAIN gs.states :
                    gs'.states[a].electoral_votes
                       = gs.states[a].electoral_votes]_vars

\* after a turn that started with an event, the challenger's Media Blitz
\* took 3 of its funds and raised its support in California, the log still
\* holding the one event
BlitzAfterLoggedEvent ==
    IF gs = NoGame \/ result = NoResult THEN FALSE
    ELSE /\ call.op = "execute_ai_action"
         /\ call.action_type = "MEDIA_BLITZ"
         /\ result.success
         /\ Len(gs.events_log) = 1
         /\ gs.challenger.funds = NewPlayer.funds - 3
         /\ gs.incumbent.funds = NewPlayer.funds
         /\ gs.states["CA"].challenger_support > 380
         /\ gs.current_turn = 1
         /\ ~gs.game_over

\* C38: once game_over is true, every further engine call other than
\* new_game (start_turn, the two execute calls, end_turn, end_game) leaves
\* game_over true and the stored winner as it was, and does not fire the
\* game-ended hook again (Spec)
OutcomeFinal ==
    [][/\ is_game_over(gs)
         /\ calls' = calls + 1
         /\ call'.op # "new_game"
       =>
          /\ gs'.game_over
          /\ gs'.winner = gs.winner
          /\ \A i \in 1..Len(fired') : fired'[i].hook # "game_end"]_vars

-----------------------------------------------------------------------------
(* SpecAffordable: GameEngine.get_affordable_actions asked for a player,   *)
(* then an action of that player executed on the same state.                *)

\* GameEngine.get_affordable_actions, as the set of action types
engine_get_affordable_actions(g, for_incumbent) ==
    IF g = NoGame THEN {}
    ELSE get_affordable_actions(Actor(g, for_incumbent))

InitAffordable ==
    /\ \E actor \in PlayerDraws, bystander \in BystanderDraws,
          actor_is_incumbent \in BOOLEAN :
          gs = DrawnState(actor, bystander, actor_is_incumbent, <<480, 480>>)
    /\ call = Returned("init")
    /\ result = NoResult
    /\ election = NoElection
    /\ fired = <<>>
    /\ calls = 0
    /\ pc = "affordable"
    /\ gsB = NoGame
    /\ electionB = NoElection

\* GameEngine.get_affordable_actions
AffordableAsk ==
    /\ pc = "affordable"
    /\ calls' = calls + 1
    /\ \E for_incumbent \in BOOLEAN :
          call' = [op |-> "get_affordable_actions", raised |-> FALSE,
                   for_incumbent |-> for_incumbent,
                   returned |-> engine_get_affordable_actions(gs, for_incumbent)]
    /\ pc' = "asked"
    /\ UNCHANGED <<gs, result, election, fired, gsB, electionB>>

\* execute_player_action / execute_ai_action for the player asked about
AffordableExecute ==
    /\ pc = "asked"
    /\ calls' = calls + 1
    /\ \E input \in ActionInputs, up \in BOOLEAN :
          \E r \in {execute_action(gs, input.action_type, call.for_incumbent,
                                  input.target_states, input.funds_raised, up)} :
              /\ gs' = r.state
              /\ result' = r.result
              /\ fired' = <<ActionHook(r.state, r.result, call.for_incumbent)>>
              /\ call' = [op |-> IF call.for_incumbent
                                 THEN "execute_player_action"
                                 ELSE "execute_ai_action",
                          raised |-> FALSE,
                          is_incumbent |-> call.for_incumbent,
                          action_type |-> input.action_type,
                          target_states |-> input.target_states,
                          listed |-> call.returned]
    /\ pc' = "done"
    /\ UNCHANGED <<election, gsB, electionB>>

NextAffordable == AffordableAsk \/ AffordableExecute

SpecAffordable == InitAffordable /\ [][NextAffordable]_vars

\* C39: an action type is among the actions get_affordable_actions returns
\* for a player exactly when executing it for that player on the same state
\* succeeds; the Fundraiser is always among them, so the list of a started
\* game is never empty (SpecAffordable)
AffordableAgreesWithExecution ==
    /\ pc = "asked" =>
          /\ "FUNDRAISER" \in call.returned
          /\ call.returned # {}
          /\ call.returned \subseteq ActionTypeSet
    /\ pc = "done" =>
          (result.success <=> call.action_type \in call.listed)

\* with funds of 3 the list left out the Ad Campaign (cost 4), and the Ad
\* Campaign then failed
AdCampaignNotListedFailed ==
    /\ pc = "done"
    /\ call.action_type = "AD_CAMPAIGN"
    /\ Actor(gs, call.is_incumbent).funds = 3
    /\ call.listed = ActionTypeSet \ {"AD_CAMPAIGN"}
    /\ ~result.success

====
